---- MODULE Spec2Model ----
(***************************************************************************)
(* ScrollWarden: the incremental PDF page viewer (PDFViewer.tsx, first      *)
(* implementation in the file) as a state machine.                          *)
(*                                                                          *)
(* One action is one task of the browser's event loop: an event handler,   *)
(* a timer callback or the continuation of an awaited promise, together    *)
(* with the React 18 re-render it schedules and the effects of that        *)
(* render (automatic batching: every setState of one task is applied in    *)
(* one render).                                                             *)
(*                                                                          *)
(* Scales are counted in half units: 0.5 is 1, 1.0 is 2, ..., 3.0 is 6.     *)
(* Delays are in milliseconds and are data only: timers fire in any order. *)
(***************************************************************************)
EXTENDS Integers, Sequences, FiniteSets, TLC

\* ------------------------------------------------------------------ bounds
NumPages == 3
MaxBulkOps == 3
MaxBulkDocs == 13
MaxLoads == 2
MaxZooms == 2
MaxZoomSteps == 5
MaxScrolls == 1
MaxNavs == 1
MaxCites == 1
MaxDocPages == 2
MaxBody == 2
MaxPageNo == 12
MaxOps == 2
MaxDocs == 2

\* ------------------------------------------------------- program constants
MinScale == 1
MaxScale == 6
ZoomStep == 1
DefaultScale == 2
PrefetchMargin == 1
MaxAttempts == 5
AttemptDelay == 300
EstimatedPageHeight == 850
MaxFileSize == 80
MaxTotalFiles == 10
DebounceDelay == 100
SettleDelay == 1000

\* ------------------------------------------------------------------ domains
Docs == {1, 2}
\* the page count of a document: document 1 is the longest one
DocPageCount(d) == IF d = 1 THEN NumPages ELSE NumPages - 1
AllPages == 1..NumPages
\* targets a citation can name: the first page, the last page of the longest
\* document, and a page beyond every document
Targets == {1, NumPages, NumPages + 1}
NoScale == 0
NoDoc == 0
NoTarget == 0
\* intersection ratios an entry reports: 0 not intersecting, 1 intersecting.
\* The viewer is run with all intersecting ratios equal.
Ratios == {0, 1}

VARIABLES
  pdfFile,        \* prop: the document the viewer is asked to show
  targetPage,     \* prop: page to navigate to, NoTarget when undefined
  document,       \* state: the opened document, NoDoc when null
  loads,          \* loadPDF calls awaiting the decoder
  loadCount,      \* number of loadPDF calls so far
  isLoading,      \* state
  error,          \* state: TRUE when an error message is set
  scale,          \* viewerState.scale
  currentPage,    \* viewerState.currentPage
  totalPages,     \* viewerState.totalPages
  pagesRendered,  \* viewerState.pagesRendered
  visiblePages,   \* state
  zoomCount,      \* number of scale changes so far
  scrollCount,    \* number of moves of the scroll root so far
  pages,          \* per mounted PDFPageComponent: isRendering, the refs, its paints
  orphanPaints,   \* render tasks of unmounted page components, by page number
  viewport,       \* ratio class of every page container against the scroll root
  observerRef,    \* the IntersectionObserver observerRef.current holds
  effTimer,       \* debounceTimer of the closure the observer effect created
  navChains,      \* tryScroll chains, one per run of the target-page effect
  lastScroll,     \* the last programmatic scroll
  ev              \* how the last paint step ended, for the statements below

\* the App around the viewer
VARIABLES
  pdfFiles,       \* appState.pdfFiles, in upload order
  activePdfId,    \* appState.activePdfId, NoDoc when null
  chatHistory,    \* appState.chatHistory
  isAiThinking,   \* appState.isAiThinking
  appError,       \* appState.error, "" when null
  targetPageInfo, \* the navigation target, NoInfo when null
  resetTimers,    \* timestamps held by the pending 3000 ms reset timers
  lastStamp,      \* the last value Date.now() returned to navigateToCitation
  nextPdfId,      \* nextPdfId.current
  extractions,    \* processPDFFile calls that have not settled: id and name
  aiCalls,        \* queryAI calls that have not settled
  citeCount,      \* number of navigateToCitation calls so far
  autoNavs,       \* pending 500 ms auto-navigation timers of handleChatSubmit
  userOps         \* number of uploads, selections, removals and questions so far

\* one call of processPDFFile (pdfProcessor.ts)
VARIABLES
  procFile,          \* the File being processed and what the decoder will do
  procPc,            \* "idle", "open", "loop", "returned" or "threw"
  procPageNumber,    \* pageNumber of the extraction loop
  procTotalPages,    \* totalPages
  procExtractedText, \* extractedText, a sequence of tokens
  procError          \* message of the Error thrown, empty when none

\* one call of parseAIResponse (promptUtils.ts and its copies)
VARIABLES
  responseText,      \* the argument, a sequence of tokens
  parsePc,           \* "idle", "called" or "returned"
  parseResult        \* the value returned: content and citation

\* queryAI (aiService.ts)
VARIABLES
  apiKey,            \* import.meta.env.VITE_OPENAI_API_KEY, a sequence of tokens
  fetchCalls         \* number of fetch() calls to the completion API so far

svcVars == << procFile, procPc, procPageNumber, procTotalPages,
              procExtractedText, procError, responseText, parsePc,
              parseResult >>

stateVars == << pdfFiles, activePdfId, chatHistory, isAiThinking, appError,
                targetPageInfo, resetTimers, lastStamp, nextPdfId, extractions,
                aiCalls, citeCount, autoNavs, userOps >>

aiVars == << apiKey, fetchCalls >>

appVars == << stateVars, svcVars, aiVars >>

viewerVars == << pdfFile, targetPage, document, loads, loadCount, isLoading, error,
                 scale, currentPage, totalPages, pagesRendered, visiblePages,
                 zoomCount, scrollCount, pages, orphanPaints, viewport,
                 observerRef, effTimer, navChains, lastScroll, ev >>

vars == << pdfFile, targetPage, document, loads, loadCount, isLoading, error,
           scale, currentPage, totalPages, pagesRendered, visiblePages,
           zoomCount, scrollCount, pages, orphanPaints, viewport, observerRef, effTimer,
           navChains, lastScroll, ev, pdfFiles, activePdfId, chatHistory,
           isAiThinking, appError, targetPageInfo, resetTimers, lastStamp,
           nextPdfId, extractions, aiCalls, citeCount, autoNavs, userOps,
           procFile, procPc,
           procPageNumber, procTotalPages, procExtractedText, procError,
           responseText, parsePc, parseResult, apiKey, fetchCalls >>

\* ------------------------------------------------------------------ helpers
Max(a, b) == IF a > b THEN a ELSE b
Min(a, b) == IF a < b THEN a ELSE b

\* the tree of page containers is rendered only past the three early returns
Mounted(ld, er, doc) == ~ld /\ ~er /\ doc # NoDoc

\* ev: whether the last step ended a paint, how, and of which page
NoEvent == [kind |-> "none", page |-> 0]
PaintEvent(k, p) == [kind |-> k, page |-> p]

\* ------------------------------------------------------- PDFPageComponent
\* renderTaskRef of the model tells whether the ref holds a render task that
\* has not settled. The catch branch leaves a settled task in the ref; it
\* acts like null there, for cancel() of a settled task does nothing.
FreshPage ==
  [isRendering |-> FALSE, renderedScaleRef |-> NoScale, renderTaskRef |-> FALSE,
   paints |-> << >>]

NewPaint(sc) ==
  [scale |-> sc, stage |-> "getPage", task |-> FALSE, cancelled |-> FALSE,
   rerequested |-> FALSE]

\* renderTaskRef.current.cancel(): the task the ref holds, if still running,
\* will reject with RenderingCancelledException
CancelTask(pts) ==
  [i \in DOMAIN pts |->
     IF pts[i].task THEN [pts[i] EXCEPT !.cancelled = TRUE, !.task = FALSE]
     ELSE pts[i]]

\* the canvas exists unless the placeholder branch is rendered
CanvasMounted(c, isVisible) == isVisible \/ c.renderedScaleRef # NoScale

\* a plausible slip: the busy flag is not raised when a paint begins
RenderPageBegin_NoBusyFlag(c, sc) ==
  [c EXCEPT !.renderTaskRef = FALSE,
            !.paints = Append(IF c.renderTaskRef THEN CancelTask(c.paints)
                              ELSE c.paints, NewPaint(sc))]

\* renderPage past its guards: cancel the task the ref holds, raise the busy
\* flag, start document.getPage
RenderPageBegin(c, sc) ==
  [c EXCEPT !.isRendering = TRUE,
            !.renderTaskRef = FALSE,
            !.paints = Append(IF c.renderTaskRef THEN CancelTask(c.paints)
                              ELSE c.paints, NewPaint(sc))]

\* the guards of renderPage
RenderPageGuard(c, isVisible, sc) ==
  /\ CanvasMounted(c, isVisible)
  /\ ~c.isRendering
  /\ c.renderedScaleRef # sc

\* the condition of the render-trigger effect
RenderTrigger(c, isVisible, sc) ==
  isVisible /\ ~c.isRendering /\ c.renderedScaleRef # sc

\* The render-trigger effect of one page after a render. Its dependencies
\* are isVisible, scale, isRendering and renderPage; whenever its condition
\* holds one of them has just changed, so the effect runs. depChanged tells
\* that isVisible or scale changed in this render: the effect then runs for
\* a page that is busy too, and leaves its paint alone.
PageEffect(c, isVisible, sc, depChanged) ==
  IF RenderTrigger(c, isVisible, sc) /\ RenderPageGuard(c, isVisible, sc)
  THEN RenderPageBegin(c, sc)
  ELSE IF depChanged /\ isVisible /\ c.isRendering /\ c.renderedScaleRef # sc
  THEN [c EXCEPT !.paints = [i \in DOMAIN c.paints |->
                               [c.paints[i] EXCEPT !.rerequested = TRUE]]]
  ELSE c

\* a plausible slip: every page is handed isVisible = true
IsVisible_Always(p, vis) == TRUE

\* the isVisible prop of page p
IsVisible(p, vis) == p \in vis

\* every mounted page component after a render; unmounted ones are fresh
PagesAfterRender(pg, mounted, n, vis, oldVis, sc, oldSc) ==
  [p \in AllPages |->
     IF mounted /\ p <= n
     THEN PageEffect(pg[p], IsVisible(p, vis), sc,
                     sc # oldSc \/ (IsVisible(p, vis) # IsVisible(p, oldVis)))
     ELSE FreshPage]

\* render tasks that outlive their page component when the tree unmounts
Orphaned(pg) ==
  {p \in AllPages : \E i \in DOMAIN pg[p].paints :
      pg[p].paints[i].stage = "render" /\ ~pg[p].paints[i].cancelled}

\* ------------------------------------------------------ Visibility Tracker
NoTimer == [pending |-> FALSE, entries |-> << >>]
Timer(e) == [pending |-> TRUE, entries |-> e]
NoObserver == [owner |-> "none", idx |-> 0, connected |-> FALSE]
ZeroViewport == [p \in AllPages |-> 0]

Intersecting(v) == {p \in AllPages : v[p] > 0}

\* what the scroll root can show of n page containers: up to two
\* neighbouring pages
Viewports(n) ==
  {v \in [AllPages -> Ratios] :
     /\ Intersecting(v) # {}
     /\ \A p \in Intersecting(v) : p <= n
     /\ \A p, q \in Intersecting(v) : q - p <= 1}

\* A batch of entries is kept as the function from the pages it reports
\* intersecting to their ratio: the callback skips every other entry.
\* The first callback of a new observer reports every observed container.
AllEntries(v, n) == [p \in {q \in 1..n : v[q] > 0} |-> v[p]]
\* later callbacks report the containers whose ratio changed
ChangedEntries(v, w, n) == [p \in {q \in 1..n : v[q] # w[q] /\ w[q] > 0} |-> w[p]]
\* the observer has something to report when the viewport moves from v to w
Reports(v, w, n) == \E q \in 1..n : v[q] # w[q]

\* the margin loop of the debounced callback for one intersecting entry
WithNeighbours(p, total) ==
  Max(1, p - PrefetchMargin)..Min(total, p + PrefetchMargin)

\* a plausible slip: the set is rebuilt from the batch, the captured set is
\* dropped
NewVisiblePages_Replaced(snapVisible, snapTotal, entries) ==
  UNION {WithNeighbours(p, snapTotal) : p \in DOMAIN entries}

\* newVisiblePages of the debounced callback: a copy of the visiblePages the
\* closure captured, plus the neighbourhood of every intersecting entry
NewVisiblePages(snapVisible, snapTotal, entries) ==
  snapVisible \cup
  UNION {WithNeighbours(p, snapTotal) : p \in DOMAIN entries}

RECURSIVE Ascending(_)
Ascending(S) ==
  IF S = {} THEN << >>
  ELSE LET m == CHOOSE x \in S : \A y \in S : x <= y
       IN << m >> \o Ascending(S \ {m})

RECURSIVE Reduce(_, _, _)
\* entries.reduce((prev, current) => prev.ratio > current.ratio ? prev : current)
Reduce(acc, rest, entries) ==
  IF rest = << >> THEN acc
  ELSE Reduce(IF entries[acc] > entries[Head(rest)] THEN acc ELSE Head(rest),
              Tail(rest), entries)

\* the page of mostVisibleEntry; the entries arrive in the order of observe()
MostVisible(entries) ==
  LET vis == Ascending(DOMAIN entries)
  IN Reduce(Head(vis), Tail(vis), entries)

\* the observer callback: clearTimeout(debounceTimer), then a new timer that
\* holds this batch. Each closure of setupIntersectionObserver has its own
\* debounceTimer: the one of the observer effect, or the one of a chain.
DeliverEff(obs, eff, v, w, n) ==
  IF obs.connected /\ obs.owner = "eff" /\ Reports(v, w, n)
  THEN [eff EXCEPT !.pending = TRUE, !.entries = ChangedEntries(v, w, n)] ELSE eff

DeliverNav(obs, chains, v, w, n) ==
  IF obs.connected /\ obs.owner = "nav" /\ Reports(v, w, n)
  THEN [chains EXCEPT ![obs.idx].obsTimer = Timer(ChangedEntries(v, w, n))]
  ELSE chains

Unarmed == [armed |-> FALSE, pending |-> FALSE, entries |-> << >>]

\* The observer effect runs again (document, totalPages or visiblePages
\* changed): the cleanup of the previous run, when it returned one, clears
\* its timer and disconnects observerRef.current; then
\* setupIntersectionObserver of the new render.
ResetupObserver(obs, eff, doc, mounted, v, n) ==
  LET cleaned == IF eff.armed THEN [obs EXCEPT !.connected = FALSE] ELSE obs
  IN IF doc # NoDoc /\ mounted
     THEN [obs |-> [owner |-> "eff", idx |-> 0, connected |-> TRUE],
           eff |-> [armed |-> TRUE, pending |-> TRUE, entries |-> AllEntries(v, n)]]
     ELSE [obs |-> cleaned, eff |-> Unarmed]

\* --------------------------------------------------- Navigation Controller
\* const delay = attempt * 300
TryScrollDelay(attempt) == attempt * AttemptDelay

\* a plausible slip: one attempt too many
TryScrollGivesUp_OffByOne(attempt) == attempt > MaxAttempts + 1

\* if (attempt > 5) return
TryScrollGivesUp(attempt) == attempt > MaxAttempts

\* tryScroll() of the target-page effect: the chain captures targetPage and
\* the setupIntersectionObserver of its render (visiblePages, totalPages)
NewChain(t, vis, total) ==
  [target |-> t, attempt |-> 1, status |-> "waiting",
   delays |-> << TryScrollDelay(1) >>, snapVisible |-> vis, snapTotal |-> total,
   settle |-> "none", obsTimer |-> NoTimer]

\* the target-page effect after a render in which targetPage or document
\* changed; hasContainer is containerRef.current at that time
TargetEffect(chains, t, doc, hasContainer, vis, total) ==
  IF t # NoTarget /\ doc # NoDoc /\ hasContainer
  THEN Append(chains, NewChain(t, vis, total)) ELSE chains

NoScroll == [kind |-> "none", arg |-> 0]

\* ---------------------------------------------------------------- the App
\* names a dropped file can carry, and names a citation can carry: one of
\* them differs from a file name in case only, one names no file at all
FileNames == {"a.pdf", "b.pdf"}
CiteNames == FileNames \cup {"A.pdf", "c.pdf"}
NoInfo == [documentName |-> "", pageNumber |-> 0, timestamp |-> 0]

\* file.name of the two documents the viewer is run on
DocName(d) == IF d = 1 THEN "a.pdf" ELSE "b.pdf"

\* the record handlePDFUpload creates for a dropped file
PdfType == "application/pdf"
NewPdf(id, name) ==
  [id |-> id, name |-> name, fileType |-> PdfType, pages |-> 0, extractedText |-> "",
   isProcessing |-> TRUE, error |-> ""]

\* the record of document d once processPDFFile has resolved for it
ReadyPdf(d) ==
  [NewPdf(d, DocName(d)) EXCEPT !.pages = DocPageCount(d),
                                !.extractedText = "text", !.isProcessing = FALSE]

\* ---------------------------------------------------- Text Extraction Pipeline
\* Text is a sequence of tokens.  A token is one whitespace character (" "
\* or "\n") or a run of characters that no step of the pipeline looks into:
\* a word, a page marker, a placeholder.

\* `[Page ${pageNumber}]`
PageMarker(n) == "[Page " \o ToString(n) \o "]"

ExtractFailed == "[Error: Could not extract text from this page]"
ProcessFailed == "[Error: Could not process this page]"

\* what \s matches
IsWhite(c) == c \in {" ", "\n"}

\* String.prototype.trim
RECURSIVE TrimStart(_)
TrimStart(t) ==
  IF t # << >> /\ IsWhite(Head(t)) THEN TrimStart(Tail(t)) ELSE t

RECURSIVE TrimEnd(_)
TrimEnd(t) ==
  IF t # << >> /\ IsWhite(t[Len(t)])
  THEN TrimEnd(SubSeq(t, 1, Len(t) - 1))
  ELSE t

Trim(t) == TrimEnd(TrimStart(t))

\* Array.prototype.join
RECURSIVE Join(_, _)
Join(parts, sep) ==
  IF parts = << >> THEN << >>
  ELSE IF Len(parts) = 1 THEN parts[1]
  ELSE parts[1] \o << sep >> \o Join(Tail(parts), sep)

\* String.prototype.split('\n')
RECURSIVE Split(_)
Split(t) ==
  IF \E i \in DOMAIN t : t[i] = "\n"
  THEN LET i == CHOOSE i \in DOMAIN t :
                  t[i] = "\n" /\ \A j \in 1..(i - 1) : t[j] # "\n"
       IN << SubSeq(t, 1, i - 1) >> \o Split(SubSeq(t, i + 1, Len(t)))
  ELSE << t >>

\* .replace(/\s+/g, ' ')
RECURSIVE CollapseWhitespace(_)
CollapseWhitespace(t) ==
  IF t = << >> THEN << >>
  ELSE IF IsWhite(Head(t))
       THEN << " " >> \o CollapseWhitespace(TrimStart(t))
       ELSE << Head(t) >> \o CollapseWhitespace(Tail(t))

\* length of the whitespace run t starts with
RECURSIVE WhiteRun(_)
WhiteRun(t) ==
  IF t # << >> /\ IsWhite(Head(t)) THEN 1 + WhiteRun(Tail(t)) ELSE 0

\* .replace(/\n\s*\n\s*\n/g, '\n\n'): a match starts at a line break whose
\* whitespace run holds two more line breaks and, being greedy, ends at the
\* last line break of the run
RECURSIVE CollapseLineBreaks(_)
CollapseLineBreaks(t) ==
  IF t = << >> THEN << >>
  ELSE LET breaks == {i \in 1..WhiteRun(t) : t[i] = "\n"}
       IN IF Head(t) = "\n" /\ Cardinality(breaks) >= 3
          THEN LET last == CHOOSE i \in breaks : \A j \in breaks : j <= i
               IN << "\n", "\n" >>
                    \o CollapseLineBreaks(SubSeq(t, last + 1, Len(t)))
          ELSE << Head(t) >> \o CollapseLineBreaks(Tail(t))

\* cleanExtractedText
cleanExtractedText(text) ==
  LET lines == Split(CollapseLineBreaks(CollapseWhitespace(text)))
  IN Trim(Join([i \in DOMAIN lines |-> Trim(lines[i])], "\n"))

\* extractPageText: items is the sequence of item.str of the page's text
\* content, throws tells whether page.getTextContent() rejects
extractPageText(items, pageNumber, throws) ==
  IF throws
  THEN << PageMarker(pageNumber), "\n", ExtractFailed, "\n", "\n" >>
  ELSE << PageMarker(pageNumber), "\n" >> \o Trim(Join(items, " "))
         \o << "\n", "\n" >>

\* values of item.str: empty or missing, a word, text with spaces and line
\* breaks in it, and text that reads like a page marker
ItemStrs ==
  { << >>, << "x" >>, << " ", "x", "\n", "\n", "\n", "x" >>,
    << PageMarker(2) >> }

RECURSIVE SeqsUpTo(_, _)
SeqsUpTo(S, n) ==
  IF n = 0 THEN { << >> }
  ELSE LET shorter == SeqsUpTo(S, n - 1)
       IN shorter \cup {Append(q, x) : q \in shorter, x \in S}

\* a page of the decoded document: which call rejects, if any, and the text
\* items it yields otherwise, two at most
PageSpecs ==
  {[fails |-> "no", items |-> its] : its \in SeqsUpTo(ItemStrs, 2)}
    \cup {[fails |-> f, items |-> << >>] : f \in {"getPage", "getTextContent"}}

\* messages of what getDocument rejects with, as sequences of phrases; ""
\* stands for a rejection that is no Error
OpenErrors ==
  { << "Invalid PDF", "structure" >>, << "No", "password", "given" >>,
    << "Unexpected server response" >>, << "" >> }

NoFile == [type |-> "", opens |-> << >>, pages |-> << >>]

\* the files processPDFFile is called with
ProcFiles ==
  {[type |-> "application/pdf", opens |-> << >>, pages |-> ps] :
     ps \in SeqsUpTo(PageSpecs, MaxDocPages)}
    \cup {[type |-> "application/pdf", opens |-> e, pages |-> << >>] :
            e \in OpenErrors}
    \cup {[type |-> "text/plain", opens |-> << >>, pages |-> << >>]}

\* error.message.includes(phrase)
Includes(message, phrase) == \E i \in DOMAIN message : message[i] = phrase

\* the catch block of processPDFFile: the message of the Error it throws
MapError(message) ==
  IF message = << "" >>
  THEN << "An unknown error occurred while processing the PDF." >>
  ELSE IF Includes(message, "Invalid PDF")
       THEN << "Invalid PDF file format." >>
       ELSE IF Includes(message, "password")
            THEN << "Password-protected PDFs are not supported." >>
            ELSE << "Failed to process PDF: " >> \o message

\* ------------------------------------------------------- Citation Protocol
\* A reply is a sequence of tokens: a whitespace character, a comma, a
\* decimal digit, the keywords "Source:" and "Page" in some letter case, or
\* a run of other characters.

\* the /i flag on the literals of citationRegex
IsSourceKeyword(c) == c \in {"Source:", "source:", "SOURCE:"}
IsPageKeyword(c) == c \in {"Page", "page", "PAGE"}

\* what \d matches
IsDigit(c) == \E v \in 0..9 : c = ToString(v)

\* length of the digit run t starts with
RECURSIVE DigitRun(_)
DigitRun(t) ==
  IF t # << >> /\ IsDigit(Head(t)) THEN 1 + DigitRun(Tail(t)) ELSE 0

\* parseInt(digits, 10)
RECURSIVE ParseInt(_)
ParseInt(digits) ==
  IF digits = << >> THEN 0
  ELSE 10 * ParseInt(SubSeq(digits, 1, Len(digits) - 1))
         + (CHOOSE v \in 0..9 : digits[Len(digits)] = ToString(v))

\* the decimal digits of n, as the generator writes a page number
RECURSIVE Digits(_)
Digits(n) ==
  IF n < 10 THEN << ToString(n) >>
  ELSE Digits(n \div 10) \o << ToString(n % 10) >>

NoMatch == [from |-> 0, to |-> 0, name |-> << >>, digits |-> << >>]

\* citationRegex tried at position i: "Source:", \s*, ([^,]+) up to the
\* first comma, the comma, \s*, "Page", \s*, (\d+).  The quantifiers are
\* greedy; \s* gives one character back when nothing else is left for the
\* name.
MatchAt(t, i) ==
  LET after(k) == SubSeq(t, k, Len(t))
      commas == {j \in (i + 1)..Len(t) : t[j] = ","}
      comma == IF commas = {} THEN 0
               ELSE CHOOSE j \in commas : \A h \in commas : j <= h
      page == comma + 1 + WhiteRun(after(comma + 1))
      first == page + 1 + WhiteRun(after(page + 1))
      last == first + DigitRun(after(first)) - 1
      name == i + 1 + WhiteRun(after(i + 1))
  IN IF /\ IsSourceKeyword(t[i])
        /\ comma > i + 1
        /\ page <= Len(t)
        /\ IsPageKeyword(t[page])
        /\ last >= first
     THEN [from |-> i, to |-> last,
           name |-> SubSeq(t, IF name < comma THEN name ELSE comma - 1,
                           comma - 1),
           digits |-> SubSeq(t, first, last)]
     ELSE NoMatch

\* responseText.match(citationRegex): the leftmost match
Match(t) ==
  LET starts == {i \in DOMAIN t : MatchAt(t, i) # NoMatch}
  IN IF starts = {} THEN NoMatch
     ELSE MatchAt(t, CHOOSE i \in starts : \A j \in starts : i <= j)

NoCitation == [documentName |-> << >>, pageNumber |-> -1]
NoResult == [content |-> << >>, citation |-> NoCitation]

\* a plausible slip: the content is trimmed whether a citation is found or
\* not
parseAIResponse_AlwaysTrims(t) ==
  LET match == Match(t)
  IN IF match # NoMatch
     THEN [content |-> Trim(SubSeq(t, 1, match.from - 1)
                              \o SubSeq(t, match.to + 1, Len(t))),
           citation |-> [documentName |-> Trim(match.name),
                         pageNumber |-> ParseInt(match.digits)]]
     ELSE [content |-> Trim(t), citation |-> NoCitation]

\* parseAIResponse; NoCitation stands for undefined
parseAIResponse(t) ==
  LET match == Match(t)
  IN IF match # NoMatch
     THEN [content |-> Trim(SubSeq(t, 1, match.from - 1)
                              \o SubSeq(t, match.to + 1, Len(t))),
           citation |-> [documentName |-> Trim(match.name),
                         pageNumber |-> ParseInt(match.digits)]]
     ELSE [content |-> t, citation |-> NoCitation]

\* names of uploaded documents: plain, with a space, with a comma
UploadNames ==
  { << "a.pdf" >>, << "my", " ", "notes.pdf" >>, << "Smith", ",", " ", "J.pdf" >> }

\* the reply shape the prompt asks for: `Source: ${name}, Page ${n}`
FormatCitation(name, n) ==
  << "Source:", " " >> \o name \o << ",", " ", "Page", " " >> \o Digits(n)

\* answer bodies: short texts of words, spaces and line breaks, one with a
\* comma, one that quotes a citation of its own
Bodies ==
  SeqsUpTo({"x", " ", "\n"}, MaxBody)
    \cup { << "x", ",", " ", "x", "\n" >>,
           FormatCitation(<< "b.pdf" >>, 7) \o << "\n" >> }

\* what can follow the body: nothing, a citation in the shape asked for, a
\* citation in another letter case and spacing, page 0, a page number with
\* a leading zero, a citation followed by more text, and texts that lack
\* the comma or the number
Tails ==
  { << >> }
    \cup {FormatCitation(d, n) : d \in UploadNames, n \in 1..MaxPageNo}
    \cup { << "source:", "a.pdf", ",", "page", "3" >>,
           << "Source:", " ", "a.pdf", ",", " ", "Page", " ", "0" >>,
           << "Source:", " ", "a.pdf", ",", " ", "Page", " ", "0", "7" >>,
           << "Source:", " ", "a.pdf", ",", " ", "Page", " ", "2", ".", " " >>,
           << "Source:", " ", "a.pdf", " ", "Page", " ", "1" >>,
           << "Source:", " ", "a.pdf", ",", " ", "Page", " " >>,
           << "Source:", " ", ",", " ", "Page", " ", "1" >> }

\* the texts parseAIResponse is called with
Replies == {b \o t : b \in Bodies, t \in Tails}

\* ------------------------------------------------------------ initial state
\* The viewer's initial state: the App holds documents 1 and 2, both
\* processed, and has just mounted the viewer on document 1.
\* PDFViewer just mounted: useState initial values, loadPDF started by the
\* load effect, no document yet
InitViewer ==
  /\ pdfFile = 1
  /\ targetPage = NoTarget
  /\ document = NoDoc
  /\ loads = {1}
  /\ loadCount = 1
  /\ isLoading = TRUE
  /\ error = FALSE
  /\ scale = DefaultScale
  /\ currentPage = 1
  /\ totalPages = 0
  /\ pagesRendered = {}
  /\ visiblePages = {}
  /\ zoomCount = 0
  /\ scrollCount = 0
  /\ pages = [p \in AllPages |-> FreshPage]
  /\ orphanPaints = {}
  /\ viewport = ZeroViewport
  /\ observerRef = NoObserver
  /\ effTimer = Unarmed
  /\ navChains = << >>
  /\ lastScroll = NoScroll
  /\ ev = NoEvent

\* the App holding documents 1 and 2, both processed, document 1 active
InitApp ==
  /\ pdfFiles = << ReadyPdf(1), ReadyPdf(2) >>
  /\ activePdfId = 1
  /\ chatHistory = << >>
  /\ isAiThinking = FALSE
  /\ appError = ""
  /\ targetPageInfo = NoInfo
  /\ resetTimers = << >>
  /\ lastStamp = 0
  /\ nextPdfId = 3
  /\ extractions = {}
  /\ aiCalls = << >>
  /\ citeCount = 0
  /\ autoNavs = << >>
  /\ userOps = 0

\* no processPDFFile call is running
InitServices ==
  /\ procFile = NoFile
  /\ procPc = "idle"
  /\ procPageNumber = 0
  /\ procTotalPages = 0
  /\ procExtractedText = << >>
  /\ procError = << >>

\* no parseAIResponse call is running
InitParser ==
  /\ responseText = << >>
  /\ parsePc = "idle"
  /\ parseResult = NoResult

\* credentials the build can be configured with: none, the placeholder of
\* .env.example, a key of another kind, blanks and null characters only, a
\* key of the expected kind, the same with a blank and a null character
\* around it
Placeholder == << "your_openai_api_key_here" >>
RawKeys ==
  { << >>, Placeholder, << "pk-", "x" >>, << " ", "NUL" >>,
    << "sk-", "x" >>, << " ", "sk-", "x", "NUL" >> }

\* the credentials the App is run with from its construction
AppKeys == { << >>, << "sk-", "x" >> }

\* rawApiKey ? rawApiKey.replace(/\u0000/g, '').trim() : ''
CleanKey(rawApiKey) == Trim(SelectSeq(rawApiKey, LAMBDA c : c # "NUL"))

\* apiKey.startsWith('sk-')
StartsWithSk(key) == key # << >> /\ Head(key) = "sk-"

\* a plausible slip: the prefix test is left out
ShouldUseMock_NoPrefixTest(rawApiKey) ==
  LET key == CleanKey(rawApiKey)
  IN key = << >> \/ key = Placeholder

\* shouldUseMock
ShouldUseMock(rawApiKey) ==
  LET key == CleanKey(rawApiKey)
  IN key = << >> \/ key = Placeholder \/ ~StartsWithSk(key)

\* no credential is configured and no request has been sent
InitAI ==
  /\ apiKey = << >>
  /\ fetchCalls = 0

\* processPDFFile has just been called with some file
InitExtract ==
  /\ InitAI
  /\ InitViewer
  /\ InitApp
  /\ InitParser
  /\ procFile \in ProcFiles
  /\ procPc = "open"
  /\ procPageNumber = 0
  /\ procTotalPages = 0
  /\ procExtractedText = << >>
  /\ procError = << >>

\* parseAIResponse has just been called with some reply
InitParse ==
  /\ InitAI
  /\ InitViewer
  /\ InitApp
  /\ InitServices
  /\ responseText \in Replies
  /\ parsePc = "called"
  /\ parseResult = NoResult

\* the App as constructed: no document, no message; the welcome screen is
\* shown and no viewer is rendered
InitEmptyApp ==
  /\ pdfFiles = << >>
  /\ activePdfId = NoDoc
  /\ chatHistory = << >>
  /\ isAiThinking = FALSE
  /\ appError = ""
  /\ targetPageInfo = NoInfo
  /\ resetTimers = << >>
  /\ lastStamp = 0
  /\ nextPdfId = 1
  /\ extractions = {}
  /\ aiCalls = << >>
  /\ citeCount = 0
  /\ autoNavs = << >>
  /\ userOps = 0
  /\ pdfFile = NoDoc
  /\ targetPage = NoTarget
  /\ document = NoDoc
  /\ loads = {}
  /\ loadCount = 0
  /\ isLoading = TRUE
  /\ error = FALSE
  /\ scale = DefaultScale
  /\ currentPage = 1
  /\ totalPages = 0
  /\ pagesRendered = {}
  /\ visiblePages = {}
  /\ zoomCount = 0
  /\ scrollCount = 0
  /\ pages = [p \in AllPages |-> FreshPage]
  /\ orphanPaints = {}
  /\ viewport = ZeroViewport
  /\ observerRef = NoObserver
  /\ effTimer = Unarmed
  /\ navChains = << >>
  /\ lastScroll = NoScroll
  /\ ev = NoEvent
  /\ InitServices
  /\ InitParser
  /\ apiKey \in AppKeys
  /\ fetchCalls = 0

Init == InitViewer /\ InitApp /\ InitServices /\ InitParser /\ InitAI

\* -------------------------------------------------------------- load effect
\* The page tree goes away (loading or error screen): the page components
\* unmount, their running render tasks go on, the containers leave the
\* viewport and a connected observer reports that.
Unmount ==
  /\ pages' = [p \in AllPages |-> FreshPage]
  /\ orphanPaints' = orphanPaints \cup Orphaned(pages)
  /\ viewport' = ZeroViewport
  /\ effTimer' = DeliverEff(observerRef, effTimer, viewport, ZeroViewport,
                            totalPages)
  /\ UNCHANGED observerRef

\* The App hands the viewer a processed document d, another one or a new
\* record of the same one, and target page t: the load
\* effect starts loadPDF (setIsLoading(true), setError(null)); the
\* target-page effect runs when targetPage changed, against the tree of the
\* render before the loading screen.
ViewerReload(d, t) ==
  /\ LET wasMounted == Mounted(isLoading, error, document)
         chains == IF t # targetPage
                   THEN TargetEffect(navChains, t, document, wasMounted,
                                     visiblePages, totalPages)
                   ELSE navChains
     IN /\ Len(chains) <= MaxNavs
        /\ navChains' = DeliverNav(observerRef, chains, viewport, ZeroViewport,
                                   totalPages)
  /\ pdfFile' = d
  /\ targetPage' = t
  /\ loads' = loads \cup {d}
  /\ loadCount' = loadCount + 1
  /\ isLoading' = TRUE
  /\ error' = FALSE
  /\ Unmount
  /\ ev' = NoEvent
  /\ UNCHANGED << document, scale, currentPage, totalPages, pagesRendered,
                  visiblePages, zoomCount, scrollCount, lastScroll >>

ViewerSwitchPdf(d, t) ==
  /\ loadCount < MaxLoads
  /\ d # pdfFile
  /\ ViewerReload(d, t)

SwitchPdf(d, t) == ViewerSwitchPdf(d, t) /\ UNCHANGED appVars

\* loadPDF of document d resolves: setDocument, totalPages, and in finally
\* setIsLoading(false). The observer effect and the target-page effect run
\* (document changed); freshly mounted pages run their render-trigger effect.
LoadDone(d) ==
  /\ UNCHANGED appVars
  /\ d \in loads
  /\ LET n == DocPageCount(d)
         mounted == Mounted(FALSE, error, d)
         wasMounted == Mounted(isLoading, error, document)
         chains == TargetEffect(navChains, targetPage, d, mounted, visiblePages, n)
     IN /\ Len(chains) <= MaxNavs
        /\ navChains' = chains
        /\ \E v \in (IF mounted
                     THEN IF wasMounted /\ \A p \in Intersecting(viewport) : p <= n
                          THEN {viewport}
                          ELSE {w \in Viewports(n) : w[1] > 0}
                     ELSE {ZeroViewport}) :
             /\ viewport' = v
             /\ LET r == ResetupObserver(observerRef, effTimer, d, mounted, v, n)
                IN observerRef' = r.obs /\ effTimer' = r.eff
        /\ pages' = PagesAfterRender(pages, mounted, n, visiblePages, visiblePages,
                                     scale, scale)
        /\ orphanPaints' = orphanPaints \cup
                           {p \in Orphaned(pages) : ~(mounted /\ p <= n)}
        /\ totalPages' = n
  /\ document' = d
  /\ loads' = loads \ {d}
  /\ isLoading' = FALSE
  /\ ev' = NoEvent
  /\ UNCHANGED << pdfFile, targetPage, loadCount, error, scale, currentPage,
                  pagesRendered, visiblePages, zoomCount, scrollCount, lastScroll >>

\* loadPDF of document d rejects: setError(message), setIsLoading(false)
LoadFailed(d) ==
  /\ UNCHANGED appVars
  /\ d \in loads
  /\ loads' = loads \ {d}
  /\ isLoading' = FALSE
  /\ error' = TRUE
  /\ Unmount
  /\ navChains' = DeliverNav(observerRef, navChains, viewport, ZeroViewport,
                             totalPages)
  /\ ev' = NoEvent
  /\ UNCHANGED << pdfFile, targetPage, document, loadCount, scale, currentPage,
                  totalPages, pagesRendered, visiblePages, zoomCount, scrollCount, lastScroll >>

\* the App changes the targetPage prop alone
setTargetPage(t, limit) ==
  /\ t # targetPage
  /\ targetPage' = t
  /\ navChains' = TargetEffect(navChains, t, document,
                               Mounted(isLoading, error, document),
                               visiblePages, totalPages)
  /\ Len(navChains') <= limit
  /\ ev' = NoEvent
  /\ UNCHANGED << pdfFile, document, loads, loadCount, isLoading, error, scale,
                  currentPage, totalPages, pagesRendered, visiblePages, zoomCount, scrollCount,
                  pages, orphanPaints, viewport, observerRef, effTimer, lastScroll >>

ViewerSetTargetPage(t) == setTargetPage(t, MaxNavs)

SetTargetPage(t) == ViewerSetTargetPage(t) /\ UNCHANGED appVars

\* the same with room for one chain more
Retarget(t) == setTargetPage(t, MaxNavs + 1) /\ UNCHANGED appVars

\* ------------------------------------------------- the App's navigation
\* a plausible slip: names are compared without regard to case
SameName_IgnoreCase(a, b) ==
  LET Fold(x) == IF x = "A.pdf" THEN "a.pdf" ELSE x
  IN Fold(a) = Fold(b)

\* pdf.name === citation.documentName
SameName(a, b) == a = b

\* appState.pdfFiles.find(pdf => pdf.name === name): the index of the first
\* record with that name, 0 when there is none
FindByName(files, name) ==
  IF \E i \in DOMAIN files : SameName(files[i].name, name)
  THEN CHOOSE i \in DOMAIN files :
         /\ SameName(files[i].name, name)
         /\ \A j \in DOMAIN files : SameName(files[j].name, name) => i <= j
  ELSE 0

\* the targetPage prop the App hands the viewer: the page of targetPageInfo
\* when its documentName is the name of the active document
TargetProp(info, files, active) ==
  IF /\ info # NoInfo
     /\ \E i \in DOMAIN files : files[i].id = active /\ files[i].name = info.documentName
  THEN info.pageNumber
  ELSE NoTarget

\* index of the record with id active, 0 when there is none
ActiveIndex(files, active) ==
  IF \E i \in DOMAIN files : files[i].id = active
  THEN CHOOSE i \in DOMAIN files : files[i].id = active
  ELSE 0

\* a plausible slip: a failed document counts as processed
IsProcessed_IgnoreError(pdf) == ~pdf.isProcessing

\* !pdfFile.isProcessing && !pdfFile.error
IsProcessed(pdf) == ~pdf.isProcessing /\ pdf.error = ""

\* The App stops rendering the viewer: the instance is gone with its state;
\* its render tasks go on, its pending load and timers act on nothing.
ViewerUnmount ==
  /\ pdfFile' = NoDoc
  /\ targetPage' = NoTarget
  /\ document' = NoDoc
  /\ loads' = {}
  /\ isLoading' = TRUE
  /\ error' = FALSE
  /\ scale' = DefaultScale
  /\ currentPage' = 1
  /\ totalPages' = 0
  /\ pagesRendered' = {}
  /\ visiblePages' = {}
  /\ pages' = [p \in AllPages |-> FreshPage]
  /\ orphanPaints' = orphanPaints \cup Orphaned(pages)
  /\ viewport' = ZeroViewport
  /\ observerRef' = NoObserver
  /\ effTimer' = Unarmed
  /\ navChains' = << >>
  /\ lastScroll' = NoScroll
  /\ ev' = NoEvent
  /\ UNCHANGED << loadCount, zoomCount, scrollCount >>

\* The App starts rendering the viewer on document d with target page t:
\* useState initial values; the load effect starts loadPDF when the
\* document is processed
ViewerMount(d, t, processed) ==
  /\ pdfFile' = d
  /\ targetPage' = t
  /\ loads' = IF processed THEN {d} ELSE {}
  /\ loadCount' = IF processed THEN loadCount + 1 ELSE loadCount
  /\ UNCHANGED << document, isLoading, error, scale, currentPage, totalPages,
                  pagesRendered, visiblePages, zoomCount, scrollCount, pages,
                  orphanPaints, viewport, observerRef, effTimer, navChains,
                  lastScroll, ev >>

\* The App hands the viewer document d, which is being processed or has
\* failed, and target page t: the load effect starts nothing, the
\* target-page effect runs when targetPage changed
ViewerTakeProps(d, t) ==
  /\ pdfFile' = d
  /\ targetPage' = t
  /\ navChains' = IF t # targetPage
                  THEN TargetEffect(navChains, t, document,
                                    Mounted(isLoading, error, document),
                                    visiblePages, totalPages)
                  ELSE navChains
  /\ Len(navChains') <= MaxNavs
  /\ ev' = NoEvent
  /\ UNCHANGED << document, loads, loadCount, isLoading, error, scale,
                  currentPage, totalPages, pagesRendered, visiblePages,
                  zoomCount, scrollCount, pages, orphanPaints, viewport,
                  observerRef, effTimer, lastScroll >>

\* The viewer after a render of the App with these documents, active id and
\* navigation target.  The viewer is rendered when the active id names a
\* record; its pdfFile prop is another object when the id changed or the
\* record was replaced.
ViewerRender(files, active, info) ==
  LET i == ActiveIndex(files, active)
      was == ActiveIndex(pdfFiles, pdfFile)
      t == TargetProp(info, files, active)
  IN IF i = 0
     THEN IF pdfFile = NoDoc THEN UNCHANGED viewerVars ELSE ViewerUnmount
     ELSE IF pdfFile = NoDoc
          THEN ViewerMount(files[i].id, t, IsProcessed(files[i]))
          ELSE IF files[i].id # pdfFile \/ was = 0 \/ pdfFiles[was] # files[i]
               THEN IF IsProcessed(files[i])
                    THEN ViewerReload(files[i].id, t)
                    ELSE ViewerTakeProps(files[i].id, t)
               ELSE IF t # targetPage THEN ViewerSetTargetPage(t)
                    ELSE UNCHANGED viewerVars

\* navigateToCitation(citation) of the render that saw the documents files:
\* with a document of that name, make it the active one, set targetPageInfo
\* with the timestamp Date.now() returns (the one of the previous call, or a
\* later one) and arm the reset timer; without one, log a warning
Navigate(files, name, n) ==
  LET i == FindByName(files, name)
  IN IF i # 0
     THEN \E ts \in {lastStamp, lastStamp + 1} :
            /\ ts >= 1
            /\ activePdfId' = files[i].id
            /\ targetPageInfo' = [documentName |-> name, pageNumber |-> n,
                                  timestamp |-> ts]
            /\ resetTimers' = Append(resetTimers, ts)
            /\ lastStamp' = ts
            /\ ViewerRender(pdfFiles, activePdfId', targetPageInfo')
     ELSE UNCHANGED << activePdfId, targetPageInfo, resetTimers, lastStamp,
                       viewerVars >>

\* a citation is clicked: handleCitationClick calls navigateToCitation of
\* the current render
NavigateToCitation(name, n) ==
  /\ citeCount < MaxCites
  /\ citeCount' = citeCount + 1
  /\ Navigate(pdfFiles, name, n)
  /\ UNCHANGED << pdfFiles, chatHistory, isAiThinking, appError, nextPdfId,
                  extractions, aiCalls, autoNavs, userOps, svcVars, aiVars >>

\* the reset timer at index i fires: targetPageInfo is cleared when it still
\* carries the timestamp of the call that armed the timer
ResetTimerFire(i) ==
  /\ i \in DOMAIN resetTimers
  /\ resetTimers' = [j \in 1..(Len(resetTimers) - 1) |->
                       IF j < i THEN resetTimers[j] ELSE resetTimers[j + 1]]
  /\ targetPageInfo' = IF targetPageInfo.timestamp = resetTimers[i]
                       THEN NoInfo ELSE targetPageInfo
  /\ ViewerRender(pdfFiles, activePdfId, targetPageInfo')
  /\ UNCHANGED << pdfFiles, activePdfId, chatHistory, isAiThinking, appError,
                  lastStamp, nextPdfId, extractions, aiCalls, citeCount,
                  autoNavs, userOps, svcVars, aiVars >>

\* ------------------------------------------------------ the App's handlers
\* files a user can drop: a name, a size in MB and a type; PDF files of
\* allowed size and beyond it, and a text file
DroppedFiles ==
  {[name |-> nm, size |-> sz, type |-> PdfType] :
     nm \in FileNames, sz \in {MaxFileSize, MaxFileSize + 1}}
    \cup {[name |-> "notes.txt", size |-> MaxFileSize, type |-> "text/plain"]}

\* FileLists a user can drop: one file or two
Batches == SeqsUpTo(DroppedFiles, 2) \ { << >> }

\* handlePDFUpload is memoised with no dependencies: the appState it reads
\* is the one of the first render
FirstRenderFiles == << >>

\* handlePDFUpload(files), up to the start of the processing promises
handlePDFUpload(batch) ==
  /\ userOps' = userOps + 1
  /\ IF \E k \in DOMAIN batch : batch[k].size > MaxFileSize
     THEN /\ appError' = "Some files exceed the 80MB limit"
          /\ UNCHANGED << pdfFiles, activePdfId, nextPdfId, extractions,
                          viewerVars >>
     ELSE IF Len(FirstRenderFiles) + Len(batch) > MaxTotalFiles
          THEN /\ appError' = "Maximum 10 PDF files allowed. Please remove some files first."
               /\ UNCHANGED << pdfFiles, activePdfId, nextPdfId, extractions,
                               viewerVars >>
          ELSE LET newPDFs == [k \in DOMAIN batch |->
                                 [NewPdf(nextPdfId + k - 1, batch[k].name)
                                    EXCEPT !.fileType = batch[k].type]]
               IN /\ pdfFiles' = pdfFiles \o newPDFs
                  /\ activePdfId' = IF activePdfId # NoDoc THEN activePdfId
                                    ELSE newPDFs[1].id
                  /\ appError' = ""
                  /\ nextPdfId' = nextPdfId + Len(batch)
                  /\ extractions' = extractions \cup
                       {[id |-> newPDFs[k].id, name |-> newPDFs[k].name,
                         type |-> newPDFs[k].fileType] :
                          k \in DOMAIN batch}
                  /\ ViewerRender(pdfFiles', activePdfId', targetPageInfo)
  /\ UNCHANGED << chatHistory, isAiThinking, targetPageInfo, resetTimers,
                  lastStamp, aiCalls, citeCount, autoNavs, svcVars, aiVars >>

\* an upload of one or two files
HandlePDFUpload(batch) ==
  /\ userOps < MaxOps
  /\ nextPdfId + Len(batch) - 1 <= MaxDocs
  /\ handlePDFUpload(batch)

\* FileLists of many files: one file, half the limit, one more than half,
\* the limit, and one more than the limit
BulkSizes == {1, 5, 6, MaxTotalFiles, MaxTotalFiles + 1}
BulkBatches ==
  {[k \in 1..n |-> [name |-> "a.pdf", size |-> MaxFileSize, type |-> PdfType]] :
     n \in BulkSizes}

\* an upload of many files at once
BulkUpload(batch) ==
  /\ userOps < MaxBulkOps
  /\ nextPdfId + Len(batch) - 1 <= MaxBulkDocs
  /\ handlePDFUpload(batch)

\* plausible slips: the record is looked up by name; the test is left out
SameDocument_ByName(pdf, call) == pdf.name = call.name
SameDocument_Always(pdf, call) == TRUE

\* pdf.id === pdfFile.id
SameDocument(pdf, call) == pdf.id = call.id

\* message of an Error processPDFFile throws
InvalidFileType == "Invalid file type. Please provide a PDF file."
ExtractionErrors == {"Invalid PDF file format.", InvalidFileType}

\* processPDFFile resolves for the document of call
ExtractionDone(call) ==
  /\ call \in extractions
  /\ call.type = PdfType
  /\ extractions' = extractions \ {call}
  /\ pdfFiles' = [i \in DOMAIN pdfFiles |->
                    IF SameDocument(pdfFiles[i], call)
                    THEN [pdfFiles[i] EXCEPT !.pages = DocPageCount(call.id),
                                             !.extractedText = "text",
                                             !.isProcessing = FALSE]
                    ELSE pdfFiles[i]]
  /\ ViewerRender(pdfFiles', activePdfId, targetPageInfo)
  /\ UNCHANGED << activePdfId, chatHistory, isAiThinking, appError,
                  targetPageInfo, resetTimers, lastStamp, nextPdfId, aiCalls,
                  citeCount, autoNavs, userOps, svcVars, aiVars >>

\* processPDFFile rejects for the document of call
ExtractionFailed(call, message) ==
  /\ call \in extractions
  /\ (message = InvalidFileType) <=> (call.type # PdfType)
  /\ extractions' = extractions \ {call}
  /\ pdfFiles' = [i \in DOMAIN pdfFiles |->
                    IF SameDocument(pdfFiles[i], call)
                    THEN [pdfFiles[i] EXCEPT !.isProcessing = FALSE,
                                             !.error = message]
                    ELSE pdfFiles[i]]
  /\ ViewerRender(pdfFiles', activePdfId, targetPageInfo)
  /\ UNCHANGED << activePdfId, chatHistory, isAiThinking, appError,
                  targetPageInfo, resetTimers, lastStamp, nextPdfId, aiCalls,
                  citeCount, autoNavs, userOps, svcVars, aiVars >>

\* a plausible slip: the new message is put in front
AppendMessage_Prepend(history, message) == << message >> \o history

\* [...prev.chatHistory, message]
AppendMessage(history, message) == Append(history, message)

\* chat messages; NoCite stands for a message without citation
NoCite == [documentName |-> "", pageNumber |-> -1]
ChatMessage(type, content, citation) ==
  [type |-> type, content |-> content, citation |-> citation]

\* what a user types into the chat box
Messages == { << " " >>, << "q", " " >> }

\* a plausible slip: the test of isAiThinking is left out
HandleChatSubmit_NoThinkingCheck(message) ==
  /\ userOps < MaxOps
  /\ userOps' = userOps + 1
  /\ LET processedPDFs == SelectSeq(pdfFiles, IsProcessed)
     IN IF Trim(message) = << >>
        THEN UNCHANGED << chatHistory, isAiThinking, appError, aiCalls >>
        ELSE IF processedPDFs = << >>
        THEN /\ appError' = "Please upload and wait for PDFs to be processed before asking questions."
             /\ UNCHANGED << chatHistory, isAiThinking, aiCalls >>
        ELSE /\ chatHistory' = AppendMessage(chatHistory,
                                      ChatMessage("user", Trim(message), NoCite))
             /\ isAiThinking' = TRUE
             /\ appError' = ""
             /\ aiCalls' = Append(aiCalls, [pdfFiles |-> processedPDFs,
                                            closure |-> pdfFiles])
  /\ UNCHANGED << pdfFiles, activePdfId, targetPageInfo, resetTimers,
                  lastStamp, nextPdfId, extractions, citeCount, autoNavs,
                  svcVars, aiVars, viewerVars >>

\* handleChatSubmit(message), up to the queryAI call; it returns at once for
\* a blank message or while a question is outstanding
HandleChatSubmit(message) ==
  /\ userOps < MaxOps
  /\ userOps' = userOps + 1
  /\ LET processedPDFs == SelectSeq(pdfFiles, IsProcessed)
     IN IF Trim(message) = << >> \/ isAiThinking
        THEN UNCHANGED << chatHistory, isAiThinking, appError, aiCalls >>
        ELSE IF processedPDFs = << >>
        THEN /\ appError' = "Please upload and wait for PDFs to be processed before asking questions."
             /\ UNCHANGED << chatHistory, isAiThinking, aiCalls >>
        ELSE /\ chatHistory' = AppendMessage(chatHistory,
                                      ChatMessage("user", Trim(message), NoCite))
             /\ isAiThinking' = TRUE
             /\ appError' = ""
             /\ aiCalls' = Append(aiCalls, [pdfFiles |-> processedPDFs,
                                            closure |-> pdfFiles])
  /\ UNCHANGED << pdfFiles, activePdfId, targetPageInfo, resetTimers,
                  lastStamp, nextPdfId, extractions, citeCount, autoNavs,
                  svcVars, aiVars, viewerVars >>

\* canSubmit={hasProcessedPDFs}
CanSubmit == \E i \in DOMAIN pdfFiles : IsProcessed(pdfFiles[i])

\* ChatPanel.handleSubmit with inputValue in the text box: onSubmit is called
\* unless the text is blank, no document is processed or a question is
\* outstanding.  The panel is rendered when the App holds a document.
ChatPanelSubmit(inputValue) ==
  /\ pdfFiles # << >>
  /\ IF Trim(inputValue) = << >> \/ ~CanSubmit \/ isAiThinking
     THEN /\ userOps < MaxOps
          /\ userOps' = userOps + 1
          /\ UNCHANGED << pdfFiles, activePdfId, chatHistory, isAiThinking,
                          appError, targetPageInfo, resetTimers, lastStamp,
                          nextPdfId, extractions, aiCalls, citeCount, autoNavs,
                          svcVars, aiVars, viewerVars >>
     ELSE HandleChatSubmit(inputValue)

\* the text of a token sequence
RECURSIVE Concat(_)
Concat(t) == IF t = << >> THEN "" ELSE Head(t) \o Concat(Tail(t))

\* replies of the text generator: no citation, a citation of an uploaded
\* name, page 0, a name no document carries
AiReplies ==
  { << "x" >>,
    << "x", "\n" >> \o FormatCitation(<< "a.pdf" >>, 1),
    << "x", "\n", "Source:", " ", "a.pdf", ",", " ", "Page", " ", "0" >>,
    << "x", "\n" >> \o FormatCitation(<< "c.pdf" >>, 2) }

\* a page number createMockAIResponse draws: Math.floor(Math.random() * 20) + 1
MockPages == {1}

\* createMockAIResponse(question, pdfs): one of the canned answers, citing
\* one of the documents
MockResponses(pdfs) ==
  {[content |-> << "mock" >>,
    citation |-> [documentName |-> pdfs[k].name, pageNumber |-> n]] :
      k \in DOMAIN pdfs, n \in MockPages}

\* callRealAIAPI resolves: the parse of the generator's reply
RealResponses ==
  {LET parsed == parseAIResponse(reply)
   IN [content |-> parsed.content,
       citation |-> IF parsed.citation = NoCitation THEN NoCite
                    ELSE [documentName |-> Concat(parsed.citation.documentName),
                          pageNumber |-> parsed.citation.pageNumber]] :
     reply \in AiReplies}

\* what queryAI resolves with for the documents pdfs
AiResponses(pdfs) ==
  IF ShouldUseMock(apiKey) THEN MockResponses(pdfs) ELSE RealResponses

\* queryAI resolves: the assistant message is added with the citation of
\* the response, and the auto-navigation timer is armed for a citation
QueryAIDone ==
  /\ aiCalls # << >>
  /\ LET validPDFs == SelectSeq(Head(aiCalls).pdfFiles,
                                LAMBDA pdf : IsProcessed(pdf) /\ pdf.extractedText # "")
     IN \E response \in AiResponses(validPDFs) :
          /\ chatHistory' = AppendMessage(chatHistory,
                                   ChatMessage("assistant", response.content,
                                               response.citation))
          /\ autoNavs' = IF response.citation # NoCite
                         THEN Append(autoNavs,
                                     [citation |-> response.citation,
                                      closure |-> Head(aiCalls).closure])
                         ELSE autoNavs
  /\ aiCalls' = Tail(aiCalls)
  /\ isAiThinking' = FALSE
  /\ fetchCalls' = IF ShouldUseMock(apiKey) THEN fetchCalls ELSE fetchCalls + 1
  /\ UNCHANGED << pdfFiles, activePdfId, appError, targetPageInfo, resetTimers,
                  lastStamp, nextPdfId, extractions, citeCount, userOps,
                  svcVars, apiKey, viewerVars >>

\* content of the message the catch block appends
Apology ==
  << "Sorry, I encountered an error while processing your question. Please try again." >>

\* a plausible slip: the catch block does not clear isAiThinking
QueryAIFailed_LeavesThinking ==
  /\ aiCalls # << >>
  /\ ~ShouldUseMock(apiKey)
  /\ fetchCalls' = fetchCalls + 1
  /\ aiCalls' = Tail(aiCalls)
  /\ chatHistory' = AppendMessage(chatHistory, ChatMessage("assistant", Apology, NoCite))
  /\ appError' = "OpenAI API error"
  /\ UNCHANGED << pdfFiles, activePdfId, isAiThinking, targetPageInfo,
                  resetTimers, lastStamp, nextPdfId, extractions, citeCount,
                  autoNavs, userOps, svcVars, apiKey, viewerVars >>

\* queryAI rejects: the request to the completion API failed
QueryAIFailed ==
  /\ aiCalls # << >>
  /\ ~ShouldUseMock(apiKey)
  /\ fetchCalls' = fetchCalls + 1
  /\ aiCalls' = Tail(aiCalls)
  /\ chatHistory' = AppendMessage(chatHistory, ChatMessage("assistant", Apology, NoCite))
  /\ isAiThinking' = FALSE
  /\ appError' = "OpenAI API error"
  /\ UNCHANGED << pdfFiles, activePdfId, targetPageInfo, resetTimers,
                  lastStamp, nextPdfId, extractions, citeCount, autoNavs,
                  userOps, svcVars, apiKey, viewerVars >>

\* the 500 ms timer at index i fires: navigateToCitation of the render in
\* which the question was submitted
AutoNavFire(i) ==
  /\ i \in DOMAIN autoNavs
  /\ autoNavs' = [j \in 1..(Len(autoNavs) - 1) |->
                    IF j < i THEN autoNavs[j] ELSE autoNavs[j + 1]]
  /\ Navigate(autoNavs[i].closure, autoNavs[i].citation.documentName,
              autoNavs[i].citation.pageNumber)
  /\ UNCHANGED << pdfFiles, chatHistory, isAiThinking, appError, nextPdfId,
                  extractions, aiCalls, citeCount, userOps, svcVars, aiVars >>

\* the citation of chat message i is clicked
HandleCitationClick(i) ==
  /\ i \in DOMAIN chatHistory
  /\ chatHistory[i].citation # NoCite
  /\ NavigateToCitation(chatHistory[i].citation.documentName,
                        chatHistory[i].citation.pageNumber)

\* handlePDFSelect(pdfId) from the sidebar
HandlePDFSelect(id) ==
  /\ userOps < MaxOps
  /\ userOps' = userOps + 1
  /\ \E i \in DOMAIN pdfFiles : pdfFiles[i].id = id
  /\ activePdfId' = id
  /\ ViewerRender(pdfFiles, activePdfId', targetPageInfo)
  /\ UNCHANGED << pdfFiles, chatHistory, isAiThinking, appError,
                  targetPageInfo, resetTimers, lastStamp, nextPdfId,
                  extractions, aiCalls, citeCount, autoNavs, svcVars, aiVars >>

\* a plausible slip: the active id is not looked at
HandlePDFRemove_KeepsActive(id) ==
  /\ userOps < MaxOps
  /\ userOps' = userOps + 1
  /\ \E i \in DOMAIN pdfFiles : pdfFiles[i].id = id
  /\ pdfFiles' = SelectSeq(pdfFiles, LAMBDA pdf : pdf.id # id)
  /\ activePdfId' = activePdfId
  /\ ViewerRender(pdfFiles', activePdfId', targetPageInfo)
  /\ UNCHANGED << chatHistory, isAiThinking, appError, targetPageInfo,
                  resetTimers, lastStamp, nextPdfId, extractions, aiCalls,
                  citeCount, autoNavs, svcVars, aiVars >>

\* handlePDFRemove(pdfId) from the sidebar
HandlePDFRemove(id) ==
  /\ userOps < MaxOps
  /\ userOps' = userOps + 1
  /\ \E i \in DOMAIN pdfFiles : pdfFiles[i].id = id
  /\ pdfFiles' = SelectSeq(pdfFiles, LAMBDA pdf : pdf.id # id)
  /\ activePdfId' = IF activePdfId = id
                    THEN IF pdfFiles' # << >> THEN pdfFiles'[1].id ELSE NoDoc
                    ELSE activePdfId
  /\ ViewerRender(pdfFiles', activePdfId', targetPageInfo)
  /\ UNCHANGED << chatHistory, isAiThinking, appError, targetPageInfo,
                  resetTimers, lastStamp, nextPdfId, extractions, aiCalls,
                  citeCount, autoNavs, svcVars, aiVars >>

\* handleClearAllPDFs
HandleClearAllPDFs ==
  /\ userOps < MaxOps
  /\ userOps' = userOps + 1
  /\ pdfFiles # << >>
  /\ pdfFiles' = << >>
  /\ activePdfId' = NoDoc
  /\ chatHistory' = << >>
  /\ ViewerRender(pdfFiles', activePdfId', targetPageInfo)
  /\ UNCHANGED << isAiThinking, appError, targetPageInfo, resetTimers,
                  lastStamp, nextPdfId, extractions, aiCalls, citeCount,
                  autoNavs, svcVars, aiVars >>

\* ------------------------------------------------------------ processPDFFile
\* the type check, file.arrayBuffer() and getDocument(): the call throws for
\* a file that is no PDF, a document that does not open or has no pages,
\* and enters the page loop otherwise
ProcessOpen ==
  /\ procPc = "open"
  /\ IF procFile.type # "application/pdf"
     THEN /\ procPc' = "threw"
          /\ procError' = << "Invalid file type. Please provide a PDF file." >>
          /\ UNCHANGED << procTotalPages, procPageNumber >>
     ELSE IF procFile.opens # << >>
          THEN /\ procPc' = "threw"
               /\ procError' = MapError(procFile.opens)
               /\ UNCHANGED << procTotalPages, procPageNumber >>
          ELSE /\ procTotalPages' = Len(procFile.pages)
               /\ IF Len(procFile.pages) = 0
                  THEN /\ procPc' = "threw"
                       /\ procError' =
                            MapError(<< "PDF file appears to be empty or corrupted." >>)
                       /\ UNCHANGED procPageNumber
                  ELSE /\ procPc' = "loop"
                       /\ procPageNumber' = 1
                       /\ UNCHANGED procError
  /\ UNCHANGED << procFile, procExtractedText >>
  /\ UNCHANGED << viewerVars, stateVars, aiVars, responseText, parsePc, parseResult >>

\* one round of the page loop
ProcessPage ==
  /\ procPc = "loop"
  /\ procPageNumber <= procTotalPages
  /\ LET page == procFile.pages[procPageNumber]
     IN procExtractedText' =
          procExtractedText \o
            (IF page.fails = "getPage"
             THEN << PageMarker(procPageNumber), "\n", ProcessFailed, "\n", "\n" >>
             ELSE extractPageText(page.items, procPageNumber,
                                  page.fails = "getTextContent"))
  /\ procPageNumber' = procPageNumber + 1
  /\ UNCHANGED << procFile, procPc, procTotalPages, procError >>
  /\ UNCHANGED << viewerVars, stateVars, aiVars, responseText, parsePc, parseResult >>

\* the loop is over: clean the text and return
ProcessReturn ==
  /\ procPc = "loop"
  /\ procPageNumber > procTotalPages
  /\ procExtractedText' = cleanExtractedText(procExtractedText)
  /\ procPc' = "returned"
  /\ UNCHANGED << procFile, procPageNumber, procTotalPages, procError >>
  /\ UNCHANGED << viewerVars, stateVars, aiVars, responseText, parsePc, parseResult >>

\* ----------------------------------------------------------- parseAIResponse
ParseAIResponse ==
  /\ parsePc = "called"
  /\ parseResult' = parseAIResponse(responseText)
  /\ parsePc' = "returned"
  /\ UNCHANGED << responseText, procFile, procPc, procPageNumber,
                  procTotalPages, procExtractedText, procError >>
  /\ UNCHANGED << viewerVars, stateVars, aiVars >>

\* ------------------------------------------------------------ zoom handlers
\* setViewerState of a zoom handler with the new scale ns, then the render:
\* the render-trigger effects of the pages, and the scale effect of the
\* viewer, which sets a copy of visiblePages and so re-creates the observer
ApplyScale(ns, limit) ==
  IF ns # scale
  THEN /\ zoomCount < limit
       /\ zoomCount' = zoomCount + 1
       /\ scale' = ns
       /\ pagesRendered' = {}
       /\ pages' = PagesAfterRender(pages, TRUE, totalPages, visiblePages,
                                    visiblePages, ns, scale)
       /\ IF visiblePages # {}
          THEN LET r == ResetupObserver(observerRef, effTimer, document, TRUE,
                                        viewport, totalPages)
               IN observerRef' = r.obs /\ effTimer' = r.eff
          ELSE UNCHANGED << observerRef, effTimer >>
       /\ ev' = NoEvent
       /\ UNCHANGED << pdfFile, targetPage, document, loads, loadCount, isLoading,
                       error, currentPage, totalPages, visiblePages, scrollCount,
                       orphanPaints,
                       viewport, navChains, lastScroll >>
  ELSE /\ ev' = NoEvent
       /\ UNCHANGED << pdfFile, targetPage, document, loads, loadCount, isLoading,
                       error, scale, currentPage, totalPages, pagesRendered,
                       visiblePages, zoomCount, scrollCount, pages, orphanPaints, viewport,
                       observerRef, effTimer, navChains, lastScroll >>

\* zoomIn without the upper clamp
zoomIn_NoClamp(limit) ==
  /\ UNCHANGED appVars
  /\ Mounted(isLoading, error, document)
  /\ ApplyScale(scale + ZoomStep, limit)

\* zoomIn, zoomOut and resetZoom, the scale changes counted up to limit
zoomIn(limit) ==
  /\ UNCHANGED appVars
  /\ Mounted(isLoading, error, document)
  /\ ApplyScale(Min(MaxScale, scale + ZoomStep), limit)

zoomOut(limit) ==
  /\ UNCHANGED appVars
  /\ Mounted(isLoading, error, document)
  /\ ApplyScale(Max(MinScale, scale - ZoomStep), limit)

resetZoom(limit) ==
  /\ UNCHANGED appVars
  /\ Mounted(isLoading, error, document)
  /\ ApplyScale(DefaultScale, limit)

ZoomIn == zoomIn(MaxZooms)

ZoomOut == zoomOut(MaxZooms)

ResetZoom == resetZoom(MaxZooms)

\* --------------------------------------------------------- scroll, observer
\* The scroll root moves (the user scrolls, a smooth scroll advances, the
\* layout changes): a connected observer calls back with the containers
\* whose ratio class changed, and the callback re-arms its debounce timer.
Scroll(v) ==
  /\ UNCHANGED appVars
  /\ Mounted(isLoading, error, document)
  /\ v \in Viewports(totalPages)
  /\ v # viewport
  /\ scrollCount < MaxScrolls
  /\ scrollCount' = scrollCount + 1
  /\ viewport' = v
  /\ effTimer' = DeliverEff(observerRef, effTimer, viewport, v, totalPages)
  /\ navChains' = DeliverNav(observerRef, navChains, viewport, v, totalPages)
  /\ ev' = NoEvent
  /\ UNCHANGED << pdfFile, targetPage, document, loads, loadCount, isLoading,
                  error, scale, currentPage, totalPages, pagesRendered,
                  visiblePages, zoomCount, pages, orphanPaints, observerRef,
                  lastScroll >>

\* The body of the debounced callback of a closure that captured
\* (snapVisible, snapTotal), on the batch it holds; eff and chains are the
\* timers once this one is spent. setVisiblePages re-renders: the pages run
\* their render-trigger effect and the observer effect runs again.
DebouncedUpdate(snapVisible, snapTotal, entries, eff, chains) ==
  LET nv == NewVisiblePages(snapVisible, snapTotal, entries)
      hasChanges == nv # snapVisible
      mounted == Mounted(isLoading, error, document)
  IN /\ IF hasChanges
        THEN /\ visiblePages' = nv
             /\ pages' = PagesAfterRender(pages, mounted, totalPages, nv,
                                          visiblePages, scale, scale)
             /\ LET r == ResetupObserver(observerRef, eff, document, mounted,
                                         viewport, totalPages)
                IN observerRef' = r.obs /\ effTimer' = r.eff
        ELSE /\ effTimer' = eff
             /\ UNCHANGED << visiblePages, pages, observerRef >>
     /\ currentPage' = IF DOMAIN entries # {}
                       THEN MostVisible(entries) ELSE currentPage
     /\ navChains' = chains
     /\ ev' = NoEvent
     /\ UNCHANGED << pdfFile, targetPage, document, loads, loadCount, isLoading,
                     error, scale, totalPages, pagesRendered, zoomCount, scrollCount,
                     orphanPaints, viewport, lastScroll >>

\* the debounce timer of the observer effect's closure fires; that closure
\* is the one of the latest render, so it captured the current values
DebounceFire ==
  /\ UNCHANGED appVars
  /\ effTimer.pending
  /\ DebouncedUpdate(visiblePages, totalPages, effTimer.entries,
                     [effTimer EXCEPT !.pending = FALSE, !.entries = << >>],
                     navChains)

\* the debounce timer of the closure a navigation's settle timer created
NavDebounceFire(k) ==
  /\ UNCHANGED appVars
  /\ k \in DOMAIN navChains
  /\ navChains[k].obsTimer.pending
  /\ DebouncedUpdate(navChains[k].snapVisible, navChains[k].snapTotal,
                     navChains[k].obsTimer.entries, effTimer,
                     [navChains EXCEPT ![k].obsTimer = NoTimer])

\* ----------------------------------------------------- renderPage, resumed
RemoveAt(seq, i) == [j \in 1..(Len(seq) - 1) |-> IF j < i THEN seq[j] ELSE seq[j + 1]]

\* a plausible slip: isRendering is left out of the dependencies of the
\* render-trigger effect, which then does not run after finally
PaintFinally_NoRetrigger(c, i, p) ==
  [c EXCEPT !.isRendering = FALSE,
            !.renderTaskRef = c.renderTaskRef /\ ~c.paints[i].task,
            !.paints = RemoveAt(c.paints, i)]

\* finally { setIsRendering(false) } of the paint at index i, whose record
\* is dropped, then the render: the page's render-trigger effect runs again
\* because isRendering changed
PaintFinally(c, i, p) ==
  PageEffect([c EXCEPT !.isRendering = FALSE,
                       !.renderTaskRef = c.renderTaskRef /\ ~c.paints[i].task,
                       !.paints = RemoveAt(c.paints, i)],
             IsVisible(p, visiblePages), scale, FALSE)

PaintFrame ==
  /\ UNCHANGED appVars
  /\ UNCHANGED << pdfFile, targetPage, document, loads, loadCount, isLoading, error,
               scale, currentPage, totalPages, visiblePages, zoomCount, scrollCount,
               orphanPaints, viewport, observerRef, effTimer, navChains,
               lastScroll >>

\* document.getPage resolves: without a canvas renderPage returns, else
\* page.render starts and renderTaskRef holds its task
GetPageDone(p, i) ==
  /\ i \in DOMAIN pages[p].paints
  /\ pages[p].paints[i].stage = "getPage"
  /\ IF CanvasMounted(pages[p], IsVisible(p, visiblePages))
     THEN /\ pages' = [pages EXCEPT
                 ![p].renderTaskRef = TRUE,
                 ![p].paints = [j \in DOMAIN pages[p].paints |->
                    IF j = i THEN [pages[p].paints[j] EXCEPT !.stage = "render",
                                                             !.task = TRUE]
                    ELSE [pages[p].paints[j] EXCEPT !.task = FALSE]]]
          /\ ev' = NoEvent
     ELSE /\ pages' = [pages EXCEPT ![p] = PaintFinally(pages[p], i, p)]
          /\ ev' = PaintEvent("returned", p)
  /\ UNCHANGED pagesRendered
  /\ PaintFrame

\* document.getPage rejects: the catch branch of an error, then finally
GetPageFailed(p, i) ==
  /\ i \in DOMAIN pages[p].paints
  /\ pages[p].paints[i].stage = "getPage"
  /\ pages' = [pages EXCEPT ![p] = PaintFinally(pages[p], i, p)]
  /\ ev' = PaintEvent("error", p)
  /\ UNCHANGED pagesRendered
  /\ PaintFrame

\* a plausible slip: the scale of the current render is recorded instead of
\* the scale the paint was made at
RenderDoneScale_Current(rec) == scale

\* renderedScaleRef.current = scale, the scale the closure of the paint holds
RenderDoneScale(rec) == rec.scale

\* the render task resolves: the scale is recorded, the ref cleared,
\* onPageRendered adds the page to pagesRendered, then finally
RenderDone(p, i) ==
  /\ i \in DOMAIN pages[p].paints
  /\ pages[p].paints[i].stage = "render"
  /\ ~pages[p].paints[i].cancelled
  /\ pages' = [pages EXCEPT ![p] =
        PaintFinally([pages[p] EXCEPT
                        !.renderedScaleRef = RenderDoneScale(pages[p].paints[i]),
                        !.renderTaskRef = FALSE], i, p)]
  /\ pagesRendered' = pagesRendered \cup {p}
  /\ ev' = PaintEvent("painted", p)
  /\ PaintFrame

\* the render task rejects with an error other than a cancellation
RenderFailed(p, i) ==
  /\ i \in DOMAIN pages[p].paints
  /\ pages[p].paints[i].stage = "render"
  /\ ~pages[p].paints[i].cancelled
  /\ pages' = [pages EXCEPT ![p] = PaintFinally(pages[p], i, p)]
  /\ ev' = PaintEvent("error", p)
  /\ UNCHANGED pagesRendered
  /\ PaintFrame

\* a plausible slip: the cancellation is handled like a completed paint
CancelledPage_AsPainted(c, rec) ==
  [c EXCEPT !.renderedScaleRef = rec.scale, !.renderTaskRef = FALSE]

\* the catch branch of RenderingCancelledException: a log line only
CancelledPage(c, rec) == c

\* the render task rejects with RenderingCancelledException: cancel() was
\* called on it, or the decoder cancelled it on its own
RenderCancelled(p, i) ==
  /\ i \in DOMAIN pages[p].paints
  /\ pages[p].paints[i].stage = "render"
  /\ pages' = [pages EXCEPT ![p] =
        PaintFinally(CancelledPage(pages[p], pages[p].paints[i]), i, p)]
  /\ ev' = PaintEvent("cancelled", p)
  /\ UNCHANGED pagesRendered
  /\ PaintFrame

\* the render task of an unmounted page component settles: on success
\* onPageRendered still reaches the viewer; the component's own state is gone
OrphanSettled(p, ok) ==
  /\ UNCHANGED appVars
  /\ p \in orphanPaints
  /\ orphanPaints' = orphanPaints \ {p}
  /\ pagesRendered' = IF ok THEN pagesRendered \cup {p} ELSE pagesRendered
  /\ ev' = NoEvent
  /\ UNCHANGED << pdfFile, targetPage, document, loads, loadCount, isLoading,
                  error, scale, currentPage, totalPages, visiblePages, zoomCount, scrollCount,
                  pages, viewport, observerRef, effTimer, navChains, lastScroll >>

\* -------------------------------------------------------------- navigation
\* scrollToTargetPage: with the container in pageRefs, disconnect the
\* observer, scrollIntoView, set currentPage, arm the settle timer; else
\* look the container up in the DOM; else scroll to the estimated position
ScrollToTargetPage(t, inPageRefs, inDom, hasContainer) ==
  IF inPageRefs
  THEN [disconnect |-> TRUE, scroll |-> [kind |-> "element", arg |-> t],
        setsCurrent |-> TRUE, settle |-> TRUE]
  ELSE IF inDom
  THEN [disconnect |-> FALSE, scroll |-> [kind |-> "element", arg |-> t],
        setsCurrent |-> TRUE, settle |-> FALSE]
  ELSE IF hasContainer
  THEN [disconnect |-> FALSE,
        scroll |-> [kind |-> "estimate", arg |-> (t - 1) * EstimatedPageHeight],
        setsCurrent |-> TRUE, settle |-> FALSE]
  ELSE [disconnect |-> FALSE, scroll |-> NoScroll, setsCurrent |-> FALSE,
        settle |-> FALSE]

NavFrame ==
  /\ UNCHANGED appVars
  /\ UNCHANGED << pdfFile, targetPage, document, loads, loadCount, isLoading, error,
               scale, totalPages, pagesRendered, visiblePages, zoomCount, scrollCount, pages,
               orphanPaints, viewport, effTimer >>

\* the timer of tryScroll(attempt) fires: with the container in pageRefs
\* scrollToTargetPage runs and the chain ends, else tryScroll(attempt + 1)
TryScrollFire(k) ==
  /\ k \in DOMAIN navChains
  /\ navChains[k].status = "waiting"
  /\ LET ch == navChains[k]
         mounted == Mounted(isLoading, error, document)
         inPageRefs == mounted /\ ch.target <= totalPages
     IN IF inPageRefs
        THEN LET s == ScrollToTargetPage(ch.target, TRUE, mounted /\ ch.target <= totalPages,
                                         mounted)
             IN /\ observerRef' = IF s.disconnect
                                  THEN [observerRef EXCEPT !.connected = FALSE]
                                  ELSE observerRef
                /\ lastScroll' = s.scroll
                /\ currentPage' = IF s.setsCurrent THEN ch.target ELSE currentPage
                /\ navChains' = [navChains EXCEPT
                                   ![k].status = "scrolled",
                                   ![k].settle = IF s.settle THEN "pending" ELSE "none"]
        ELSE /\ navChains' = [navChains EXCEPT ![k] =
                  IF TryScrollGivesUp(ch.attempt + 1)
                  THEN [ch EXCEPT !.status = "gaveUp"]
                  ELSE [ch EXCEPT !.attempt = ch.attempt + 1,
                                  !.delays = Append(ch.delays,
                                                    TryScrollDelay(ch.attempt + 1))]]
             /\ UNCHANGED << observerRef, lastScroll, currentPage >>
  /\ ev' = NoEvent
  /\ NavFrame

\* the settle timer fires: setupIntersectionObserver of the render the
\* target-page effect ran in is called; its closure owns a debounce timer
\* of its own and captured that render's visiblePages and totalPages
SettleFire(k) ==
  /\ k \in DOMAIN navChains
  /\ navChains[k].settle = "pending"
  /\ IF Mounted(isLoading, error, document)
     THEN /\ observerRef' = [owner |-> "nav", idx |-> k, connected |-> TRUE]
          /\ navChains' = [navChains EXCEPT
                             ![k].settle = "done",
                             ![k].obsTimer = Timer(AllEntries(viewport, totalPages))]
     ELSE /\ navChains' = [navChains EXCEPT ![k].settle = "done"]
          /\ UNCHANGED observerRef
  /\ ev' = NoEvent
  /\ UNCHANGED << lastScroll, currentPage >>
  /\ NavFrame

\* ----------------------------------------------------------- specifications
\* the decoder's side of a paint: each awaited promise settles
PaintStep ==
  \/ \E p \in AllPages, i \in 1..2 : GetPageDone(p, i)
  \/ \E p \in AllPages, i \in 1..2 : GetPageFailed(p, i)
  \/ \E p \in AllPages, i \in 1..2 : RenderDone(p, i)
  \/ \E p \in AllPages, i \in 1..2 : RenderFailed(p, i)
  \/ \E p \in AllPages, i \in 1..2 : RenderCancelled(p, i)

\* The Render Scheduler on one open document whose viewport is at rest:
\* the first visibility update, zoom changes and paint completions in any
\* order.
NextRender ==
  \/ \E d \in Docs : LoadDone(d)
  \/ \E d \in Docs : LoadFailed(d)
  \/ ZoomIn
  \/ ZoomOut
  \/ ResetZoom
  \/ DebounceFire
  \/ PaintStep

SpecRender == Init /\ [][NextRender]_vars

\* The zoom controls while every paint of the decoder succeeds: the load,
\* the visibility update and the paints run to completion (the load and the
\* paints are promises that resolve, the debounce is a timer that fires);
\* the user is free to press a zoom control or not.
NextRepaint ==
  \/ \E d \in Docs : LoadDone(d)
  \/ ZoomIn
  \/ ZoomOut
  \/ ResetZoom
  \/ DebounceFire
  \/ \E p \in AllPages, i \in 1..2 : GetPageDone(p, i)
  \/ \E p \in AllPages, i \in 1..2 : RenderDone(p, i)

SpecRepaint == Init /\ [][NextRepaint]_vars

SpecRepaintFair ==
  /\ SpecRepaint
  /\ WF_vars(\E d \in Docs : LoadDone(d))
  /\ WF_vars(DebounceFire)
  /\ \A p \in AllPages :
       WF_vars(\E i \in 1..2 : GetPageDone(p, i) \/ RenderDone(p, i))

\* no paint is started and unsettled, and no visibility update is pending
PaintsSettled ==
  /\ \A p \in AllPages : pages[p].paints = << >>
  /\ ~effTimer.pending

\* The zoom controls on one open document with the scroll root at rest:
\* enough scale changes to go from the default scale to either bound, each
\* control pressed once the paints of the previous scale have settled
\* (SpecRender has the controls pressed under running paints).
NextZoom ==
  \/ \E d \in Docs : LoadDone(d)
  \/ PaintsSettled /\ zoomIn(MaxZoomSteps)
  \/ PaintsSettled /\ zoomOut(MaxZoomSteps)
  \/ PaintsSettled /\ resetZoom(MaxZoomSteps)
  \/ DebounceFire
  \/ PaintStep

SpecZoom == Init /\ [][NextZoom]_vars

\* Lazy painting on one open document at a fixed scale: the scroll root
\* moves, visibility updates and paint completions in any order.
NextLazy ==
  \/ \E d \in Docs : LoadDone(d)
  \/ \E d \in Docs : LoadFailed(d)
  \/ \E v \in [AllPages -> Ratios] : Scroll(v)
  \/ DebounceFire
  \/ PaintStep

SpecLazy == Init /\ [][NextLazy]_vars

\* The viewer while the App switches between documents: loads, the first
\* visibility update and paint completions in any order, at a fixed scale
\* and with the scroll root at rest.
NextSwitch ==
  \/ \E d \in Docs : SwitchPdf(d, NoTarget)
  \/ \E d \in Docs : LoadDone(d)
  \/ \E d \in Docs : LoadFailed(d)
  \/ DebounceFire
  \/ PaintStep

SpecSwitch == Init /\ [][NextSwitch]_vars

\* The Navigation Controller and the Visibility Tracker while the App
\* switches documents and targets; the decoder's paints stay pending.
NextNav ==
  \/ \E d \in Docs, t \in {NoTarget} \cup Targets : SwitchPdf(d, t)
  \/ \E d \in Docs : LoadDone(d)
  \/ \E d \in Docs : LoadFailed(d)
  \/ \E t \in {NoTarget} \cup Targets : SetTargetPage(t)
  \/ \E v \in [AllPages -> Ratios] : Scroll(v)
  \/ DebounceFire
  \/ \E k \in 1..MaxNavs : NavDebounceFire(k)
  \/ \E k \in 1..MaxNavs : TryScrollFire(k)
  \/ \E k \in 1..MaxNavs : SettleFire(k)

SpecNav == Init /\ [][NextNav]_vars

\* The Visibility Tracker on one open document: the scroll root moves, the
\* debounce timers fire, and navigations to the first page re-create the
\* observer from the closure of an older render.
NextTracker ==
  \/ \E d \in Docs : LoadDone(d)
  \/ \E d \in Docs : LoadFailed(d)
  \/ \E t \in {NoTarget, 1} : SetTargetPage(t)
  \/ \E v \in [AllPages -> Ratios] : Scroll(v)
  \/ DebounceFire
  \/ \E k \in 1..MaxNavs : NavDebounceFire(k)
  \/ \E k \in 1..MaxNavs : TryScrollFire(k)
  \/ \E k \in 1..MaxNavs : SettleFire(k)

SpecTracker == Init /\ [][NextTracker]_vars

\* The tryScroll chains alone: the App switches documents and targets, the
\* lookup and settle timers fire; the scroll root and the debounce timers
\* are left alone.
NextChain ==
  \/ \E d \in Docs, t \in {NoTarget} \cup Targets : SwitchPdf(d, t)
  \/ \E d \in Docs : LoadDone(d)
  \/ \E d \in Docs : LoadFailed(d)
  \/ \E t \in {NoTarget} \cup Targets : SetTargetPage(t)
  \/ \E k \in 1..MaxNavs : TryScrollFire(k)
  \/ \E k \in 1..MaxNavs : SettleFire(k)

SpecChain == Init /\ [][NextChain]_vars

\* One open document whose target page is set again while the tryScroll
\* chain of an earlier target is pending: room for one chain more than
\* MaxNavs.
NextRetarget ==
  \/ \E d \in Docs : LoadDone(d)
  \/ \E t \in {NoTarget} \cup Targets : Retarget(t)
  \/ \E k \in 1..(MaxNavs + 1) : TryScrollFire(k)
  \/ \E k \in 1..(MaxNavs + 1) : SettleFire(k)

SpecRetarget == Init /\ [][NextRetarget]_vars

\* Citation navigation: the App's navigateToCitation and reset timer drive
\* the viewer's props; loads and the timers of the tryScroll chains run.
\* Every pending promise settles and every armed timer fires.
NextCite ==
  \/ \E name \in CiteNames, n \in Targets : NavigateToCitation(name, n)
  \/ \E i \in 1..MaxCites : ResetTimerFire(i)
  \/ \E d \in Docs : LoadDone(d)
  \/ \E d \in Docs : LoadFailed(d)
  \/ \E k \in 1..MaxNavs : TryScrollFire(k)
  \/ \E k \in 1..MaxNavs : SettleFire(k)

SpecCite ==
  /\ Init
  /\ [][NextCite]_vars
  /\ WF_vars(\E i \in 1..MaxCites : ResetTimerFire(i))
  /\ WF_vars(\E d \in Docs : LoadDone(d) \/ LoadFailed(d))
  /\ WF_vars(\E k \in 1..MaxNavs : TryScrollFire(k))
  /\ WF_vars(\E k \in 1..MaxNavs : SettleFire(k))

\* Text extraction: one call of processPDFFile on every file of ProcFiles.
NextExtract ==
  \/ ProcessOpen
  \/ ProcessPage
  \/ ProcessReturn

SpecExtract == InitExtract /\ [][NextExtract]_vars

\* The App from its construction: uploads, extractions settling in any
\* order, questions and their answers, selection, removal, citation clicks
\* and the navigation timers.  The viewer takes its props from the App and
\* calls nothing back; its loads stay pending here.
NextApp ==
  \/ \E batch \in Batches : HandlePDFUpload(batch)
  \/ \E call \in extractions : ExtractionDone(call)
  \/ \E call \in extractions, message \in ExtractionErrors :
       ExtractionFailed(call, message)
  \/ \E message \in Messages : HandleChatSubmit(message)
  \/ QueryAIDone
  \/ QueryAIFailed
  \/ \E i \in 1..MaxOps : AutoNavFire(i)
  \/ \E i \in 1..(2 * MaxOps) : HandleCitationClick(i)
  \/ \E i \in 1..(MaxOps + MaxCites) : ResetTimerFire(i)
  \/ \E id \in 1..MaxDocs : HandlePDFSelect(id)
  \/ \E id \in 1..MaxDocs : HandlePDFRemove(id)
  \/ HandleClearAllPDFs

SpecApp == InitEmptyApp /\ [][NextApp]_vars

\* The App from its construction under uploads of many files, removals and
\* clearing; the extractions stay pending.
NextBulk ==
  \/ \E batch \in BulkBatches : BulkUpload(batch)
  \/ \E id \in 1..MaxBulkDocs : HandlePDFRemove(id)
  \/ HandleClearAllPDFs

SpecBulk == InitEmptyApp /\ [][NextBulk]_vars

\* The App on two processed documents, with any credential: questions typed
\* into the chat panel or handed to handleChatSubmit, their answers, the
\* navigation that follows, selection, removal and clearing.  The viewer's
\* load stays pending.
InitChat ==
  /\ InitViewer
  /\ InitApp
  /\ InitServices
  /\ InitParser
  /\ apiKey \in RawKeys
  /\ fetchCalls = 0

NextChat ==
  \/ \E inputValue \in Messages : ChatPanelSubmit(inputValue)
  \/ \E message \in Messages : HandleChatSubmit(message)
  \/ QueryAIDone
  \/ QueryAIFailed
  \/ \E i \in 1..MaxOps : AutoNavFire(i)
  \/ \E i \in 1..(2 * MaxOps) : HandleCitationClick(i)
  \/ \E i \in 1..(MaxOps + MaxCites) : ResetTimerFire(i)
  \/ \E id \in 1..MaxDocs : HandlePDFSelect(id)
  \/ \E id \in 1..MaxDocs : HandlePDFRemove(id)
  \/ HandleClearAllPDFs

SpecChat == InitChat /\ [][NextChat]_vars

\* the same, where a queryAI call that was started settles
SpecChatFair == SpecChat /\ WF_vars(QueryAIDone \/ QueryAIFailed)

\* The chat where every armed reset timer of navigateToCitation fires: a
\* setTimeout callback runs once its delay has passed.
SpecResetFair ==
  SpecChat /\ WF_vars(\E i \in 1..(MaxOps + MaxCites) : ResetTimerFire(i))

\* Citation parsing: one call of parseAIResponse on every reply of Replies.
NextParse == ParseAIResponse

SpecParse == InitParse /\ [][NextParse]_vars

\* the whole viewer
Next ==
  \/ NextApp
  \/ NextSwitch
  \/ NextBulk
  \/ NextChat
  \/ NextExtract
  \/ NextParse
  \/ NextRender
  \/ NextRetarget
  \/ NextRepaint
  \/ NextZoom
  \/ NextLazy
  \/ NextNav
  \/ NextChain
  \/ NextCite
  \/ \E p \in AllPages, ok \in BOOLEAN : OrphanSettled(p, ok)

Spec == Init /\ [][Next]_vars

\* ------------------------------------------------------------------ claims
\* paints of page p that are started and neither completed, failed nor
\* cancelled
InFlight(p) ==
  {i \in DOMAIN pages[p].paints : ~pages[p].paints[i].cancelled}

\* C1: for every page of the open document, in every reachable state, at
\* most one paint of that page is in flight.
C1_AtMostOnePaintInFlight ==
  \A p \in AllPages : Cardinality(InFlight(p)) <= 1

\* a page was requested again (zoom or visibility update) while its paint
\* was in flight, and still has exactly that one paint
C1_Witness ==
  \E p \in AllPages :
    /\ Cardinality(InFlight(p)) = 1
    /\ pages[p].paints[1].rerequested

\* C2: every page in pagesRendered was painted at the current scale.
C2_PaintedSetAtCurrentScale ==
  \A p \in pagesRendered : pages[p].renderedScaleRef = scale

\* C3: a paint started at an old scale never runs to successful completion
\* after the scale has changed.
C3_StalePaintNeverCompletes ==
  [][ev'.kind = "painted" =>
       \A i \in DOMAIN pages[ev'.page].paints :
         pages[ev'.page].paints[i].scale = scale']_vars

\* C4: a paint whose page was requested again before it completed never
\* transitions the page to Painted.
C4_SupersededPaintNeverPainted ==
  [][ev'.kind = "painted" =>
       \A i \in DOMAIN pages[ev'.page].paints :
         ~pages[ev'.page].paints[i].rerequested]_vars

\* C5: after a paint of a page fails with a non-cancellation error, no new
\* paint of that page starts while the page stays visible at the same scale.
C5_NoRetryAfterError ==
  [][(/\ ev'.kind = "error"
      /\ ev'.page \in visiblePages /\ ev'.page \in visiblePages'
      /\ \A i \in DOMAIN pages[ev'.page].paints :
           pages[ev'.page].paints[i].scale = scale')
     => pages'[ev'.page].paints = << >>]_vars

\* C6: a paint that ends with a cancellation leaves renderedScaleRef of its
\* page, pagesRendered and the viewer's error state as they were.
C6_CancelledPaintLeavesNoTrace ==
  [][ev'.kind = "cancelled" =>
       /\ pages'[ev'.page].renderedScaleRef = pages[ev'.page].renderedScaleRef
       /\ pagesRendered' = pagesRendered
       /\ error' = error]_vars

\* a paint has just ended with a cancellation
C6_Witness == ev.kind = "cancelled"

\* a paint of page p begins in this step
PaintStarts(p) ==
  /\ pages'[p].paints # << >>
  /\ pages'[p].paints # pages[p].paints
  /\ pages'[p].paints[Len(pages'[p].paints)] = NewPaint(scale')

\* C7: a paint of page p starts only in a state where p is in the
\* visible-page set, and a page that has never been in the set is never
\* painted. Where the scroll root moves at a fixed scale on one document the
\* set only grows, so the pages that were never in it are those outside it.
C7_PaintStartsOnlyWhenVisible ==
  /\ [][\A p \in AllPages : PaintStarts(p) => p \in visiblePages']_vars
  /\ [][visiblePages \subseteq visiblePages']_vars
  /\ [](\A p \in AllPages \ visiblePages :
          /\ pages[p].paints = << >>
          /\ pages[p].renderedScaleRef = NoScale
          /\ p \notin pagesRendered)

\* a visible page is being painted while the open document is mounted
C7_Witness ==
  \E p \in visiblePages :
    /\ pages[p].paints # << >>
    /\ \A q \in AllPages \ visiblePages :
         pages[q].paints = << >> /\ pages[q].renderedScaleRef = NoScale

\* the pages within the pre-fetch margin of a page of S, among 1..total
MarginOf(S, total) ==
  {q \in 1..total : \E p \in S : q >= p - PrefetchMargin /\ q <= p + PrefetchMargin}

\* this step is a Visibility Tracker update: a debounce timer fires
TrackerUpdate ==
  DebounceFire \/ \E k \in DOMAIN navChains : NavDebounceFire(k)

Accumulates(cap, total, hit) ==
  IF MarginOf(hit, total) \subseteq cap
  THEN visiblePages' = visiblePages
  ELSE visiblePages' = cap \cup MarginOf(hit, total)

LookupFires(k) ==
  /\ k \in DOMAIN navChains
  /\ navChains[k].status = "waiting"
  /\ navChains'[k] # navChains[k]

\* C9: when the last of the 5 lookups of a navigation misses, the viewport
\* is scrolled to (target - 1) x 850 and currentPage is set to the target.
C9_MissEndsWithEstimatedScroll ==
  [][\A k \in 1..MaxNavs :
       (LookupFires(k) /\ navChains'[k].status = "gaveUp") =>
         /\ lastScroll' = [kind |-> "estimate",
                           arg |-> (navChains[k].target - 1) * EstimatedPageHeight]
         /\ currentPage' = navChains[k].target]_vars

Settling(k) ==
  k \in DOMAIN navChains /\ navChains[k].settle = "pending"

\* C11: from a programmatic scroll to a mounted page until the settle timer
\* fires, no tracker callback changes currentPage or visiblePages, and
\* currentPage stays equal to the target page.
C11_TrackerSuspendedWhileSettling ==
  /\ [](\A k \in 1..MaxNavs :
          Settling(k) => currentPage = navChains[k].target)
  /\ [][\A k \in 1..MaxNavs :
          (Settling(k) /\ TrackerUpdate) =>
            /\ visiblePages' = visiblePages
            /\ currentPage' = currentPage]_vars

\* the citation (d, n) has been clicked: d is the active document and the
\* navigation target is page n of it
Cited(d, n) ==
  /\ activePdfId = d
  /\ targetPageInfo.documentName = DocName(d)
  /\ targetPageInfo.pageNumber = n

\* C12: after a click on a citation of page n of a processed document d
\* with at least n pages, the viewer, unless it fails to open d, eventually
\* shows d scrolled to page n with currentPage = n.
C12_CitationEventuallyScrolls ==
  \A d \in Docs : \A n \in 1..DocPageCount(d) :
    Cited(d, n) ~>
      \/ error
      \/ /\ document = d
         /\ lastScroll = [kind |-> "element", arg |-> n]
         /\ currentPage = n

\* C13: navigating to a citation whose documentName is the name of no
\* uploaded document changes neither the active document, the navigation
\* target, the document collection, the chat history nor the error.
C13_UnknownCitationChangesNothing ==
  [][\A name \in CiteNames, n \in Targets :
       (/\ NavigateToCitation(name, n)
        /\ \A i \in DOMAIN pdfFiles : pdfFiles[i].name # name)
       => /\ activePdfId' = activePdfId
          /\ targetPageInfo' = targetPageInfo
          /\ pdfFiles' = pdfFiles
          /\ chatHistory' = chatHistory
          /\ appError' = appError
          /\ targetPage' = targetPage
          /\ pdfFile' = pdfFile]_vars

\* a navigation has been made and has left no target and no reset timer
C13_Witness ==
  /\ citeCount >= 1
  /\ targetPageInfo = NoInfo
  /\ resetTimers = << >>
  /\ lastStamp = 0

\* the page numbers of the markers a text holds, in order
MarkerNumbers(text) ==
  LET marks == SelectSeq(text, LAMBDA c : \E n \in 1..(MaxDocPages + 1) :
                                           c = PageMarker(n))
  IN [i \in DOMAIN marks |->
        CHOOSE n \in 1..(MaxDocPages + 1) : marks[i] = PageMarker(n)]

\* C14: for a document of N >= 1 decodable pages processPDFFile returns,
\* whichever pages fail; totalPages is N and the text returned holds exactly
\* the markers [Page 1] .. [Page N], in this order.
C14_MarkersCompleteAndOrdered ==
  LET N == Len(procFile.pages)
  IN (procFile.type = "application/pdf" /\ procFile.opens = << >> /\ N >= 1)
       => /\ procPc # "threw"
          /\ procPc = "returned"
               => /\ procTotalPages = N
                  /\ MarkerNumbers(procExtractedText) = [i \in 1..N |-> i]

\* C15: in the text processPDFFile returns, a line break follows every page
\* marker, and a blank line precedes every marker but the first.
C15_MarkerLineLayout ==
  procPc = "returned"
    => \A i \in DOMAIN procExtractedText :
         (\E n \in 1..procTotalPages : procExtractedText[i] = PageMarker(n))
           => /\ i < Len(procExtractedText)
              /\ procExtractedText[i + 1] = "\n"
              /\ i > 1 => /\ i > 2
                          /\ procExtractedText[i - 1] = "\n"
                          /\ procExtractedText[i - 2] = "\n"

\* a text holds a citation token: "Source:", a name of one character or more
\* without a comma, a comma, "Page" and a digit, with nothing but whitespace
\* between the comma, "Page" and the digit
HasCitationToken(t) ==
  \E i, j, k, l \in DOMAIN t :
    /\ i + 1 < j /\ j < k /\ k < l
    /\ IsSourceKeyword(t[i])
    /\ \A m \in (i + 1)..(j - 1) : t[m] # ","
    /\ t[j] = ","
    /\ \A m \in (j + 1)..(k - 1) : IsWhite(t[m])
    /\ IsPageKeyword(t[k])
    /\ \A m \in (k + 1)..(l - 1) : IsWhite(t[m])
    /\ IsDigit(t[l])

\* C18: for a reply without a citation token parseAIResponse returns the
\* reply itself as content, untrimmed, and no citation.
C18_NoTokenContentUnchanged ==
  (parsePc = "returned" /\ ~HasCitationToken(responseText))
    => /\ parseResult.content = responseText
       /\ parseResult.citation = NoCitation

\* a reply without a token, with whitespace at an end, has been parsed
C18_Witness ==
  /\ parsePc = "returned"
  /\ ~HasCitationToken(responseText)
  /\ Trim(responseText) # responseText
  /\ \E i \in DOMAIN responseText : IsSourceKeyword(responseText[i])

\* C19: parsing a body b followed by 'Source: d, Page n', d the name of an
\* uploaded document and n >= 1, gives documentName d, pageNumber n and the
\* content b.
C19_CitationRoundTrip ==
  \A b \in Bodies, d \in UploadNames, n \in 1..MaxPageNo :
    (parsePc = "returned" /\ responseText = b \o FormatCitation(d, n))
      => /\ parseResult.citation = [documentName |-> d, pageNumber |-> n]
         /\ parseResult.content = b

\* the fields of a record that make up its processing state
Status(pdf) ==
  [isProcessing |-> pdf.isProcessing, pages |-> pdf.pages,
   extractedText |-> pdf.extractedText, error |-> pdf.error]

\* C16: Ready and Failed are terminal: once a document's extraction has
\* completed or failed, no step of the App (another document's extraction
\* settling, a question, its answer, a selection, the removal of another
\* document, a citation navigation) changes its isProcessing, pages,
\* extractedText or error for as long as its record is in the list.
C16_ReadyAndFailedAreTerminal ==
  [][\A i \in DOMAIN pdfFiles :
       ~pdfFiles[i].isProcessing =>
         \A j \in DOMAIN pdfFiles' :
           pdfFiles'[j].id = pdfFiles[i].id =>
             Status(pdfFiles'[j]) = Status(pdfFiles[i])]_vars

\* a Ready and a Failed document are in the list, every extraction has
\* settled, a question has been answered with a citation and the navigation
\* to it has run
C16_Witness ==
  /\ \E i \in DOMAIN pdfFiles :
       ~pdfFiles[i].isProcessing /\ pdfFiles[i].error = ""
  /\ \E i \in DOMAIN pdfFiles :
       ~pdfFiles[i].isProcessing /\ pdfFiles[i].error # ""
  /\ extractions = {}
  /\ \E k \in DOMAIN chatHistory : chatHistory[k].citation # NoCite
  /\ targetPageInfo # NoInfo

\* C17: the settling of one document's extraction changes the record of no
\* other document and neither the list's length nor the App's error, in
\* whatever order the extractions launched together settle; a rejection
\* leaves the other extractions pending and is recorded in the document's own
\* record as isProcessing false and error the message.
C17_SettleChangesOnlyItsDocument ==
  [][\A call \in extractions, message \in ExtractionErrors :
       /\ (ExtractionDone(call) \/ ExtractionFailed(call, message)) =>
            /\ Len(pdfFiles') = Len(pdfFiles)
            /\ \A i \in DOMAIN pdfFiles :
                 pdfFiles[i].id # call.id => pdfFiles'[i] = pdfFiles[i]
            /\ appError' = appError
            /\ extractions' = extractions \ {call}
            /\ activePdfId' = activePdfId
       /\ ExtractionFailed(call, message) =>
            \A i \in DOMAIN pdfFiles :
              pdfFiles[i].id = call.id =>
                /\ ~pdfFiles'[i].isProcessing
                /\ pdfFiles'[i].error = message]_vars

\* of two documents in the list the one uploaded later has failed while the
\* extraction of the earlier one is still pending
C17_Witness ==
  \E i, j \in DOMAIN pdfFiles :
    /\ pdfFiles[i].id < pdfFiles[j].id
    /\ pdfFiles[i].isProcessing
    /\ \E call \in extractions : call.id = pdfFiles[i].id
    /\ ~pdfFiles[j].isProcessing
    /\ pdfFiles[j].error # ""
    /\ appError = ""

\* C20: the citation of every chat message has a pageNumber of at least 1.
C20_CitationPagesOneBased ==
  \A k \in DOMAIN chatHistory :
    chatHistory[k].citation # NoCite =>
      chatHistory[k].citation.pageNumber >= 1

\* C21: at most one queryAI call is outstanding, and only while isAiThinking
\* is set; a submission made while isAiThinking is set, in the chat panel or
\* to handleChatSubmit, appends no message, starts no call and changes
\* nothing else of the App's state.
C21_SingleFlightQuestion ==
  /\ [](Len(aiCalls) <= 1 /\ (aiCalls # << >> => isAiThinking))
  /\ [][\A message \in Messages :
          isAiThinking /\ (HandleChatSubmit(message) \/ ChatPanelSubmit(message))
            => UNCHANGED << pdfFiles, activePdfId, chatHistory, isAiThinking,
                            appError, targetPageInfo, resetTimers, nextPdfId,
                            extractions, aiCalls, autoNavs, fetchCalls >>]_vars

\* a second submission was made while the first question is outstanding
C21_Witness ==
  /\ isAiThinking
  /\ userOps = 2
  /\ Len(pdfFiles) = 2
  /\ activePdfId = 1
  /\ Len(chatHistory) = 1
  /\ Len(aiCalls) = 1

\* C22: a question that was accepted is answered: isAiThinking, once set, is
\* cleared again when the queryAI call settles; the settle appends exactly
\* one assistant message to the history and clears isAiThinking, and a
\* rejection appends the apology and sets the App's error.
C22_SubmissionEventuallyAnswered ==
  /\ isAiThinking ~> ~isAiThinking
  /\ [][(QueryAIDone \/ QueryAIFailed) =>
          /\ ~isAiThinking'
          /\ Len(chatHistory') = Len(chatHistory) + 1
          /\ SubSeq(chatHistory', 1, Len(chatHistory)) = chatHistory
          /\ chatHistory'[Len(chatHistory')].type = "assistant"]_vars
  /\ [][QueryAIFailed =>
          /\ chatHistory'[Len(chatHistory')].content = Apology
          /\ appError' # ""]_vars
  /\ [][QueryAIDone =>
          /\ chatHistory'[Len(chatHistory')].content # Apology
          /\ appError' = appError]_vars

\* two questions were asked: the first was answered, the second failed
C22_Witness ==
  /\ ~isAiThinking
  /\ aiCalls = << >>
  /\ Len(chatHistory) = 4
  /\ chatHistory[2].type = "assistant"
  /\ chatHistory[2].content # Apology
  /\ chatHistory[4].type = "assistant"
  /\ chatHistory[4].content = Apology
  /\ appError # ""

\* the notification handleChatSubmit sets when no document is processed
NoReadyDocuments ==
  "Please upload and wait for PDFs to be processed before asking questions."

C24_UploadCeiling ==
  /\ [](Len(pdfFiles) <= MaxTotalFiles)
  /\ [][\A batch \in BulkBatches :
          BulkUpload(batch) /\ Len(pdfFiles) + Len(batch) > MaxTotalFiles
            => /\ pdfFiles' = pdfFiles
               /\ appError' = "Maximum 10 PDF files allowed. Please remove some files first."]_vars

\* C25: no record of the App's collection is of a file whose type is not
\* application/pdf, whatever its processing state, and so no such file is
\* the active document.
C25_NonPdfNeverAdded ==
  \A i \in DOMAIN pdfFiles : pdfFiles[i].fileType = PdfType

\* the credential, once cleaned of null characters and surrounding blanks,
\* is empty, the placeholder, or does not begin with sk-
NoCredential ==
  LET key == CleanKey(apiKey)
  IN \/ key = << >>
     \/ key = Placeholder
     \/ Head(key) # "sk-"

\* C26: with no usable credential no request is ever sent to the completion
\* API, and every queryAI call settles by resolving with a mock response: an
\* assistant message with the mock answer is appended, isAiThinking is
\* cleared and the App's error stays unset.
C26_NoCredentialUsesMock ==
  /\ [](NoCredential => fetchCalls = 0)
  /\ [][NoCredential /\ aiCalls # << >> /\ aiCalls' # aiCalls =>
          /\ QueryAIDone
          /\ \E response \in MockResponses(Head(aiCalls).pdfFiles) :
               chatHistory' = Append(chatHistory,
                                     ChatMessage("assistant", response.content,
                                                 response.citation))
          /\ ~isAiThinking'
          /\ appError = ""
          /\ appError' = ""]_vars

\* a question was answered by the mock generator under a credential that
\* does not begin with sk-
C26_Witness ==
  /\ apiKey = << "pk-", "x" >>
  /\ Len(chatHistory) = 2
  /\ chatHistory[2].type = "assistant"
  /\ chatHistory[2].content = << "mock" >>
  /\ ~isAiThinking
  /\ appError = ""
  /\ fetchCalls = 0

\* C27 (as stated): every step of the App leaves the chat history as it is
\* or appends one message at its end.
C27_ChatHistoryAppendOnly ==
  [][\/ chatHistory' = chatHistory
     \/ /\ Len(chatHistory') = Len(chatHistory) + 1
        /\ SubSeq(chatHistory', 1, Len(chatHistory)) = chatHistory]_vars

\* C27 (amended): handleClearAllPDFs empties the chat history; every other
\* step of the App leaves it as it is or appends one message at its end.
C27_AppendOnlyUntilCleared ==
  [][IF HandleClearAllPDFs
     THEN chatHistory' = << >>
     ELSE \/ chatHistory' = chatHistory
          \/ /\ Len(chatHistory') = Len(chatHistory) + 1
             /\ SubSeq(chatHistory', 1, Len(chatHistory)) = chatHistory]_vars

\* the history was cleared while a question was outstanding, and the answer
\* was appended to the empty history
C27_Witness ==
  /\ pdfFiles = << >>
  /\ Len(chatHistory) = 1
  /\ chatHistory[1].type = "assistant"
  /\ ~isAiThinking

\* C28: handlePDFRemove of the active document makes a remaining document
\* the active one when there is one, and leaves no document active when
\* there is none; handlePDFRemove of another document leaves the active id
\* as it is; the chat history is unchanged in every case.
C28_RemovalKeepsActiveValid ==
  [][\A id \in 1..MaxDocs :
       HandlePDFRemove(id) =>
         /\ chatHistory' = chatHistory
         /\ \A j \in DOMAIN pdfFiles' : pdfFiles'[j].id # id
         /\ IF activePdfId # id
            THEN activePdfId' = activePdfId
            ELSE IF \E i \in DOMAIN pdfFiles : pdfFiles[i].id # id
            THEN /\ activePdfId' # NoDoc
                 /\ activePdfId' # id
                 /\ \E j \in DOMAIN pdfFiles' : pdfFiles'[j].id = activePdfId'
            ELSE activePdfId' = NoDoc]_vars

\* a question was asked and the active document, the first of two, was
\* removed: the second one is active
C28_Witness ==
  /\ userOps = 2
  /\ chatHistory # << >>
  /\ Len(pdfFiles) = 1
  /\ pdfFiles[1].id = 2
  /\ activePdfId = 2

\* C29: when loadPDF resolves for a document other than the one that was
\* open, the painted-set and the visible-page set are empty.
C29_ViewerStatePerDocument ==
  [][\A d \in Docs :
       LoadDone(d) /\ document # NoDoc /\ document # d
         => pagesRendered' = {} /\ visiblePages' = {}]_vars

\* The React state of the viewer: viewerState and the sibling state hooks,
\* with the per-page paint state the painted-set is fed from
ViewerState ==
  << scale, currentPage, totalPages, pagesRendered, document, visiblePages,
     isLoading, error, pages >>

\* C30: in every reachable state the scale lies between 0.5 and 3.0; zoomIn
\* and zoomOut move it by one 0.5 step clamped to these bounds, resetZoom
\* sets it to 1.0; and zoomIn at 3.0, zoomOut at 0.5 and resetZoom at 1.0
\* leave the whole viewer state, the painted-set included, unchanged.
C30_ZoomScaleBounded ==
  /\ [](scale \in MinScale..MaxScale)
  /\ [][zoomIn(MaxZoomSteps) => scale' = Min(MaxScale, scale + ZoomStep)]_vars
  /\ [][zoomOut(MaxZoomSteps) => scale' = Max(MinScale, scale - ZoomStep)]_vars
  /\ [][resetZoom(MaxZoomSteps) => scale' = DefaultScale]_vars
  /\ [][(\/ zoomIn(MaxZoomSteps) /\ scale = MaxScale
         \/ zoomOut(MaxZoomSteps) /\ scale = MinScale
         \/ resetZoom(MaxZoomSteps) /\ scale = DefaultScale)
        => UNCHANGED ViewerState]_vars

\* the scale is at the upper bound, pages are painted at that scale and the
\* paints have settled, so that a further zoomIn has a painted-set to keep
C30_Witness ==
  /\ scale = MaxScale
  /\ pagesRendered # {}
  /\ ev.kind = "painted"
  /\ PaintsSettled

\* every page of the visible set is in pagesRendered and its canvas holds a
\* paint made at scale s
VisiblePaintedAt(s) ==
  \A p \in visiblePages :
    p \in pagesRendered /\ pages[p].renderedScaleRef = s

\* C31: when the scale stays at some s from some point on, then from some
\* point on every page of the visible set is painted at s and in the
\* painted-set; this includes a page whose paint at the old scale was in
\* flight when the zoom occurred.
C31_VisiblePagesRepaintedAtScale ==
  <>[][scale' = scale]_scale => <>[]VisiblePaintedAt(scale)

\* a page whose paint was in flight during a zoom and was requested again
\* is repainted: it is in the visible set, painted at the changed scale
C31_Witness ==
  /\ zoomCount > 0
  /\ scale # DefaultScale
  /\ visiblePages # {}
  /\ VisiblePaintedAt(scale)
  /\ ev.kind = "painted"

\* C32: a batch that arrives while the debounce timer is pending is merged
\* with the batches the timer already holds, so that the single update the
\* timer makes covers the pages every one of them reported intersecting:
\* no page of the pending batch is lost when the next batch arrives.
C32_BatchesCoalesceWithoutLoss ==
  [][(/\ \E v \in [AllPages -> Ratios] : Scroll(v)
      /\ effTimer.pending
      /\ effTimer'.pending)
     => \A p \in DOMAIN effTimer.entries : p \in DOMAIN effTimer'.entries]_vars

\* the lowest-numbered page among those of the batch with the greatest
\* intersection ratio
LowestOfGreatestRatio(entries) ==
  CHOOSE p \in DOMAIN entries :
    /\ \A q \in DOMAIN entries : entries[q] <= entries[p]
    /\ \A q \in DOMAIN entries : entries[q] = entries[p] => p <= q

\* C33: after each update of the Visibility Tracker whose batch has an
\* intersecting page, currentPage is the intersecting page with the
\* greatest ratio, and among pages that tie for it the lowest-numbered one.
C33_CurrentPageIsMostVisible ==
  [][(DebounceFire /\ DOMAIN effTimer.entries # {})
     => currentPage' = LowestOfGreatestRatio(effTimer.entries)]_vars

\* C34: every page of the visible set is a page of the open document, in
\* every reachable state; and an update adds, for each page p its batch
\* reports intersecting, exactly the pages max(1, p - 1)..min(pageCount,
\* p + 1).
C34_VisiblePagesWithinDocument ==
  /\ [](document # NoDoc => visiblePages \subseteq 1..totalPages)
  /\ [][DebounceFire =>
          visiblePages' = visiblePages \cup
            UNION {Max(1, p - 1)..Min(totalPages, p + 1) :
                     p \in DOMAIN effTimer.entries}]_vars

\* the part of C34 about one update alone
C34_UpdateAddsNeighbours ==
  [][DebounceFire =>
       visiblePages' = visiblePages \cup
         UNION {Max(1, p - 1)..Min(totalPages, p + 1) :
                  p \in DOMAIN effTimer.entries}]_vars

\* C35: activePdfId is null or the id of a document of the collection, in
\* every reachable state.
C35_ActiveIdInCollection ==
  activePdfId = NoDoc \/ \E i \in DOMAIN pdfFiles : pdfFiles[i].id = activePdfId

\* the document of an extraction call is no longer in the collection
Removed(call) == \A i \in DOMAIN pdfFiles : pdfFiles[i].id # call.id

\* C36: when the extraction of a document that was removed, alone or by
\* Clear All, completes or fails, the document collection and the active
\* document are unchanged: the document is not added again.
C36_RemovedDocumentNotReadded ==
  [][\A call \in extractions :
       (/\ Removed(call)
        /\ \/ ExtractionDone(call)
           \/ \E message \in ExtractionErrors : ExtractionFailed(call, message))
       => /\ pdfFiles' = pdfFiles
          /\ activePdfId' = activePdfId]_vars

\* the first of two documents uploaded together was removed while both
\* extractions are in flight
C36_Witness ==
  /\ \E call \in extractions : Removed(call)
  /\ \E i \in DOMAIN pdfFiles : pdfFiles[i].isProcessing
  /\ activePdfId # NoDoc

\* C37: every assistant message of the chat history comes directly after
\* a user message, the question it answers, in every reachable state.
C37_AnswerFollowsQuestion ==
  \A k \in DOMAIN chatHistory :
    chatHistory[k].type = "assistant" =>
      k > 1 /\ chatHistory[k - 1].type = "user"

\* The request that set targetPageInfo is the latest call of
\* navigateToCitation that found its document, and its reset timer is the
\* one armed last: a step of ResetTimerFire(i) belongs to that request
\* exactly when i is the last index of resetTimers.
\* C38, first part: a reset timer that clears targetPageInfo is the timer of
\* the request that set it; the timer of an older request never clears the
\* target of a newer one.
C38_OnlyOwnTimerClears ==
  [][\A i \in DOMAIN resetTimers :
       (ResetTimerFire(i) /\ targetPageInfo # NoInfo /\ targetPageInfo' = NoInfo)
         => i = Len(resetTimers)]_vars

\* C38, second part: every navigation target is eventually cleared.
C38_TargetEventuallyCleared ==
  (targetPageInfo # NoInfo) ~> (targetPageInfo = NoInfo)

\* C38: the reset timer of a navigation request clears targetPageInfo only
\* when the target is still the one that request set, so the timer of an
\* older request never clears the target of a newer one, and every target
\* is eventually cleared.
C38_ResetTimerClearsOwnTarget ==
  C38_OnlyOwnTimerClears /\ C38_TargetEventuallyCleared

\* C39: once the viewer has a newer target page, a tryScroll timer of the
\* chain of an earlier target performs no scroll and does not set
\* currentPage.
C39_SupersededChainDoesNothing ==
  [][\A k \in 1..(MaxNavs + 1) :
       (/\ TryScrollFire(k)
        /\ targetPage # NoTarget
        /\ navChains[k].target # targetPage)
         => lastScroll' = lastScroll /\ currentPage' = currentPage]_vars

====
